---------------------------- MODULE Spec2Model ----------------------------
(***************************************************************************)
(* Model of the metric-normalisation, deduplication, ranking and           *)
(* classification logic of the openSODA2025 analysis scripts.              *)
(*                                                                         *)
(* Strings whose characters matter (date keys, project names, keywords)    *)
(* are sequences of one-character strings: "2024-01" is                    *)
(* <<"2","0","2","4","-","0","1">>.  A Python dict is a sequence of        *)
(* <<key, value>> pairs with distinct keys, in insertion order.            *)
(***************************************************************************)
EXTENDS Integers, Sequences, FiniteSets, TLC

VARIABLES
    ran,            \* which script function has run in this behaviour ("none" before)
    files,          \* the project directory: metric file name -> parsed JSON content
    project_info,   \* 02_deep_analysis.analyze_multiple_metrics: <<metric, field>> -> value
    results,        \* 03_final_analysis.analyze_project_metrics: <<metric, field>> -> value
    returned,       \* 03_final_analysis.analyze_project_metrics: TRUE iff results (not None) is returned
    projects_info,  \* 01_explore_data.collect_project_info: list of rows appended
    cumulative_values, \* 03_final_analysis.analyze_time_series_for_selected_projects: the plotted series
    monthly_data,   \* _generate_yearly_report: dict month -> list of project dicts
    language_data,  \* _generate_yearly_report: dict language -> list of project dicts
    hot_projects,   \* _generate_yearly_report: list of project dicts
    unique_projects, \* _generate_yearly_report: dict full_name -> project dict
    top_projects,   \* _generate_yearly_report: the ranked list
    complete_df,    \* load_and_merge_data: rows of complete_total_stars_ranking.csv
    top100_df,      \* load_and_merge_data: rows of top_100_projects.csv (none if unreadable)
    improved_df,    \* load_and_merge_data: rows of improved_project_analysis.csv (none if unreadable)
    final_df,       \* load_and_merge_data: the rows returned
    raised,         \* load_and_merge_data: the exception that ended it ("none" if none)
    project_name,   \* enhanced_classify_project_type: the argument
    project_type,   \* enhanced_classify_project_type: the value returned ("" before a call)
    df,             \* 03_final_analysis.main: the frame passed through analyze_project_growth
    type_analysis,  \* 04_expand_project_analysis.main: project_type -> row of the category summary
    org_folders,    \* the metrics directory: one list of project folders per organisation
    org_idx,        \* the loop over the organisations: how many have been gone through
    org_count,      \* analyze_top_projects_across_orgs: org_count
    all_projects_data, \* analyze_top_projects_across_orgs: the list of project_data
    monthly_files,  \* calculate_monthly_popular_trends: the files monthly_trends_*.json, sorted
    month_idx,      \* calculate_monthly_popular_trends: how many files have been gone through
    monthly_trends, \* calculate_monthly_popular_trends: month -> number of popular projects
    monthly_analysis, \* calculate_monthly_popular_trends: month -> analysis
    language_stats, \* calculate_monthly_popular_trends: language -> list of stars
    stars_arg,      \* get_stars_count: the argument
    stars_out,      \* get_stars_count: what the call gave (a value, or the exception raised)
    stars_chart,    \* generate_top_projects_chart: the 'stars' stored for the same value
    phase,          \* collect_yearly_trends: the call it is in ("idle" when it does not run)
    month_pos,      \* _collect_monthly_data: how many months of months_2025 are done
    lang_pos,       \* _collect_language_data: how many languages of target_languages are done
    disk,           \* output_dir: file name -> content
    requests,       \* the HTTP requests issued, in order
    writes,         \* the files opened for writing, in order, each with how the write ended
    stats,          \* self.stats
    df_original,    \* create_project_type_dashboard: rows of extended_project_type_analysis.csv
    df_main,        \* create_project_type_dashboard: the rows of the pie chart
    chart_raised    \* create_project_type_dashboard: the exception that ended it ("none" if none)

normState == <<files, project_info, results, returned, projects_info, cumulative_values>>
yearState == <<monthly_data, language_data, hot_projects, unique_projects, top_projects>>
mergeState == <<complete_df, top100_df, improved_df, final_df, raised>>
classState == <<project_name, project_type>>
scoreState == <<df>>
mainState == <<type_analysis>>
batchState == <<org_folders, org_idx, org_count, all_projects_data>>
trendState == <<monthly_files, month_idx, monthly_trends, monthly_analysis, language_stats>>
parseState == <<stars_arg, stars_out, stars_chart>>
collectState == <<phase, month_pos, lang_pos, disk, requests, writes, stats>>
chartState == <<df_original, df_main, chart_raised>>
extState == <<parseState, collectState, chartState>>
vars == <<ran, normState, yearState, mergeState, classState, scoreState, mainState,
          batchState, trendState, extState>>

\* The variables of a script that does not run in a behaviour keep these values.
ParseIdle ==
    stars_arg = <<>> /\ stars_out = <<>> /\ stars_chart = <<>>
CollectIdle ==
    /\ phase = "idle" /\ month_pos = 0 /\ lang_pos = 0
    /\ disk = <<>> /\ requests = <<>> /\ writes = <<>> /\ stats = <<>>
ChartIdle ==
    df_original = <<>> /\ df_main = <<>> /\ chart_raised = "none"
ExtIdle == ParseIdle /\ CollectIdle /\ ChartIdle
NormalizeIdle ==
    /\ files = <<>> /\ project_info = <<>> /\ results = <<>>
    /\ returned = FALSE /\ projects_info = <<>> /\ cumulative_values = <<>>
YearlyIdle ==
    /\ monthly_data = <<>> /\ language_data = <<>> /\ hot_projects = <<>>
    /\ unique_projects = <<>> /\ top_projects = <<>>
MergeIdle ==
    /\ complete_df = <<>> /\ top100_df = <<>> /\ improved_df = <<>>
    /\ final_df = <<>> /\ raised = "none"
ClassifyIdle ==
    /\ project_name = <<>> /\ project_type = ""
ScoreIdle ==
    df = <<>>
MainIdle ==
    type_analysis = <<>>
BatchIdle ==
    /\ org_folders = <<>> /\ org_idx = 0 /\ org_count = 0 /\ all_projects_data = <<>>
TrendIdle ==
    /\ monthly_files = <<>> /\ month_idx = 0 /\ monthly_trends = <<>>
    /\ monthly_analysis = <<>> /\ language_stats = <<>>

-----------------------------------------------------------------------------
(* Python built-ins used by the scripts *)

\* The empty mapping.
EmptyMap == [x \in {} |-> 0]

\* ord(c) for the characters that occur in date keys.
CodePoint(c) ==
    CASE c = "-" -> 45
      [] c = "0" -> 48 [] c = "1" -> 49 [] c = "2" -> 50 [] c = "3" -> 51
      [] c = "4" -> 52 [] c = "5" -> 53 [] c = "6" -> 54 [] c = "7" -> 55
      [] c = "8" -> 56 [] c = "9" -> 57
      [] c = "a" -> 97 [] c = "b" -> 98 [] c = "d" -> 100
      [] c = "r" -> 114 [] c = "w" -> 119

\* a < b for Python str: lexicographic by code point, a proper prefix is smaller.
RECURSIVE StrLess(_, _)
StrLess(a, b) ==
    IF b = <<>> THEN FALSE
    ELSE IF a = <<>> THEN TRUE
    ELSE IF Head(a) = Head(b) THEN StrLess(Tail(a), Tail(b))
    ELSE CodePoint(Head(a)) < CodePoint(Head(b))

\* sub in s
StrContains(s, sub) ==
    \E i \in 1..(Len(s) - Len(sub) + 1) : SubSeq(s, i, i + Len(sub) - 1) = sub

\* s.replace(old, new): every non-overlapping occurrence, left to right.
RECURSIVE StrReplace(_, _, _)
StrReplace(s, old, new) ==
    IF Len(s) < Len(old) THEN s
    ELSE IF SubSeq(s, 1, Len(old)) = old
         THEN new \o StrReplace(SubSeq(s, Len(old) + 1, Len(s)), old, new)
         ELSE <<Head(s)>> \o StrReplace(Tail(s), old, new)

\* list(d.keys()), list(d.values()), k in d, d[k], d[k] = v
DictKeys(d) == [i \in 1..Len(d) |-> d[i][1]]
DictValues(d) == [i \in 1..Len(d) |-> d[i][2]]
DictHas(d, k) == \E i \in 1..Len(d) : d[i][1] = k
DictGet(d, k) == d[CHOOSE i \in 1..Len(d) : d[i][1] = k][2]
DictSet(d, k, v) ==
    IF DictHas(d, k)
    THEN [i \in 1..Len(d) |-> IF d[i][1] = k THEN <<k, v>> ELSE d[i]]
    ELSE Append(d, <<k, v>>)

\* sum(xs)
RECURSIVE SumSeq(_)
SumSeq(xs) == IF xs = <<>> THEN 0 ELSE Head(xs) + SumSeq(Tail(xs))

\* insertion of one string into an ascending list (the dates of one dict are distinct)
RECURSIVE InsertSorted(_, _)
InsertSorted(xs, k) ==
    IF xs = <<>> THEN <<k>>
    ELSE IF StrLess(k, Head(xs)) THEN <<k>> \o xs
    ELSE <<Head(xs)>> \o InsertSorted(Tail(xs), k)

\* dates.sort() / sorted(d.keys()): ascending by str comparison.
RECURSIVE SortStrings(_)
SortStrings(xs) ==
    IF xs = <<>> THEN <<>> ELSE InsertSorted(SortStrings(Tail(xs)), Head(xs))

\* isinstance(data, dict), isinstance(data, (int, float))
IsDict(data) == data.kind = "dict"
IsNumber(data) == data.kind = "scalar"


-----------------------------------------------------------------------------
(* Inputs of the normalisation scripts: one project directory *)

\* Largest number of dated points in one metric file.
MaxPoints == 3

K_2024_01 == <<"2","0","2","4","-","0","1">>
K_2024_02 == <<"2","0","2","4","-","0","2">>
K_2024_02_raw == <<"2","0","2","4","-","0","2","-","r","a","w">>
K_2024_03_raw == <<"2","0","2","4","-","0","3","-","r","a","w">>
RawSuffix == <<"-","r","a","w">>

DateKeys == {K_2024_01, K_2024_02, K_2024_02_raw, K_2024_03_raw}
Values == {30, 100, 150}

\* JSON objects with at most n distinct date keys, in file order.
Series(n) ==
    {s \in [1..n -> DateKeys \X Values] :
        \A i, j \in 1..n : i # j => s[i][1] # s[j][1]}
DictData == {[kind |-> "dict", items |-> s] : s \in UNION {Series(n) : n \in 0..MaxPoints}}
ScalarData == {[kind |-> "scalar", value |-> v] : v \in Values}
MetricData == DictData \cup ScalarData

\* Content of a second metric file beside the one under study.
OtherFileData ==
    { [kind |-> "dict", items |-> <<>>],
      [kind |-> "dict", items |-> <<<<K_2024_01, 100>>>>],
      [kind |-> "dict", items |-> <<<<K_2024_02, 30>>, <<K_2024_01, 100>>>>],
      [kind |-> "scalar", value |-> 100] }

ModelFiles == {"stars.json", "technical_fork.json", "activity.json", "openrank.json"}

\* A key that is no month: "2024".
K_2024 == <<"2","0","2","4">>

\* Contents of issues_new.json, a file whose keys need not all be months.
IssuesData ==
    { [kind |-> "dict", items |-> <<<<K_2024_01, 100>>, <<K_2024_02, 150>>>>],
      [kind |-> "dict", items |-> <<<<K_2024, 30>>>>],
      [kind |-> "dict", items |-> <<<<K_2024_01, 100>>, <<K_2024, 30>>>>],
      [kind |-> "dict", items |-> <<<<K_2024_02_raw, 150>>, <<K_2024, 30>>, <<K_2024_01, 100>>>>] }

ProjectDirs ==
    {(f :> d) : f \in ModelFiles, d \in MetricData}
    \cup {("stars.json" :> d) @@ ("activity.json" :> e) : d \in MetricData, e \in OtherFileData}
    \cup {("activity.json" :> d) @@ ("stars.json" :> e) : d \in MetricData, e \in OtherFileData}
    \cup {("issues_new.json" :> d) : d \in IssuesData}
    \cup {("issues_new.json" :> d) @@ ("stars.json" :> e) : d \in IssuesData, e \in OtherFileData}

-----------------------------------------------------------------------------
(* 02_deep_analysis.py: analyze_multiple_metrics *)

metrics_to_read ==
    <<"stars.json", "technical_fork.json", "activity.json",
      "openrank.json", "change_requests.json", "issues_new.json">>

\* metric_file.replace('.json', '')
MetricName02(metric_file) ==
    CASE metric_file = "stars.json" -> "stars"
      [] metric_file = "technical_fork.json" -> "technical_fork"
      [] metric_file = "activity.json" -> "activity"
      [] metric_file = "openrank.json" -> "openrank"
      [] metric_file = "change_requests.json" -> "change_requests"
      [] metric_file = "issues_new.json" -> "issues_new"

\* The metrics whose monthly values are added up, with activity among them.
SummedMetricsWithActivity == {"stars", "technical_fork", "activity"}

\* metric_name in ['stars', 'technical_fork']
SummedMetrics == {"stars", "technical_fork"}

\* The fields written for one metric file: field -> value.
MetricFields02(metric_name, data) ==
    IF IsDict(data) /\ data.items # <<>>
    THEN LET d == data.items
             dates == SortStrings(DictKeys(d))
             first_value == DictGet(d, dates[1])
             last_value == DictGet(d, dates[Len(dates)])
         IN  IF metric_name \in SummedMetrics
             THEN ("latest" :> SumSeq(DictValues(d)))
                  @@ (IF Len(dates) > 1
                      THEN ("first" :> first_value) @@ ("growth" :> last_value - first_value)
                      ELSE EmptyMap)
             ELSE IF Len(dates) > 1
                  THEN ("latest" :> last_value) @@ ("first" :> first_value)
                       @@ ("growth" :> last_value - first_value)
                  ELSE ("latest" :> last_value)
    ELSE ("latest" :> (IF IsNumber(data) THEN data.value ELSE data))

\* project_info after the loop over metrics_to_read: <<metric, field>> -> value.
ProjectInfo02(dir) ==
    LET present == {i \in 1..Len(metrics_to_read) : metrics_to_read[i] \in DOMAIN dir}
        name(i) == MetricName02(metrics_to_read[i])
        fields(i) == MetricFields02(name(i), dir[metrics_to_read[i]])
        keys == UNION {{<<name(i), f>> : f \in DOMAIN fields(i)} : i \in present}
    IN  [k \in keys |->
            LET i == CHOOSE j \in present : name(j) = k[1] IN fields(i)[k[2]]]

analyze_multiple_metrics ==
    /\ ran = "none"
    /\ ran' = "analyze_multiple_metrics"
    /\ project_info' = ProjectInfo02(files)
    /\ UNCHANGED <<extState, files, results, returned, projects_info, cumulative_values, yearState, mergeState, classState, scoreState, mainState,
                   batchState, trendState>>

-----------------------------------------------------------------------------
(* 03_final_analysis.py: clean_date, analyze_project_metrics *)

\* clean_date: the '-raw' suffix removed; both return statements give date_str.
clean_date(date_str) ==
    IF StrContains(date_str, RawSuffix)
    THEN StrReplace(date_str, RawSuffix, <<>>)
    ELSE date_str

\* cleaned_data where a key already present keeps its first value.
RECURSIVE CleanedDataFirstWins(_, _)
CleanedDataFirstWins(items, cleaned_data) ==
    IF items = <<>> THEN cleaned_data
    ELSE LET clean_dt == clean_date(Head(items)[1])
         IN  CleanedDataFirstWins(Tail(items),
                IF clean_dt # <<>> /\ ~DictHas(cleaned_data, clean_dt)
                THEN DictSet(cleaned_data, clean_dt, Head(items)[2])
                ELSE cleaned_data)

\* The loop "for date_str, value in data.items(): cleaned_data[clean_dt] = value".
RECURSIVE CleanedData(_, _)
CleanedData(items, cleaned_data) ==
    IF items = <<>> THEN cleaned_data
    ELSE LET clean_dt == clean_date(Head(items)[1])
         IN  CleanedData(Tail(items),
                IF clean_dt # <<>>
                THEN DictSet(cleaned_data, clean_dt, Head(items)[2])
                ELSE cleaned_data)

metric_files ==
    <<  <<"stars", "stars.json">>, <<"forks", "technical_fork.json">>,
        <<"activity", "activity.json">>, <<"openrank", "openrank.json">>,
        <<"issues", "issues_new.json">>, <<"prs", "change_requests.json">>,
        <<"contributors", "new_contributors.json">> >>

\* The fields written for one metric file: field -> value.
MetricFields03(data) ==
    IF IsDict(data) /\ data.items # <<>>
    THEN LET cleaned_data == CleanedData(data.items, <<>>)
             sorted_dates == SortStrings(DictKeys(cleaned_data))
             latest_date == sorted_dates[Len(sorted_dates)]
             latest_value == DictGet(cleaned_data, latest_date)
             first_date == sorted_dates[1]
             first_value == DictGet(cleaned_data, first_date)
         IN  IF cleaned_data # <<>>
             THEN IF Len(sorted_dates) > 1
                  THEN ("latest" :> latest_value) @@ ("first" :> first_value)
                       @@ ("growth" :> latest_value - first_value)
                       @@ ("start_date" :> first_date) @@ ("end_date" :> latest_date)
                  ELSE ("latest" :> latest_value)
             ELSE EmptyMap
    ELSE EmptyMap

\* results (without org, project, full_name) after the loop over metric_files.
Results03(dir) ==
    LET present == {i \in 1..Len(metric_files) : metric_files[i][2] \in DOMAIN dir}
        fields(i) == MetricFields03(dir[metric_files[i][2]])
        keys == UNION {{<<metric_files[i][1], f>> : f \in DOMAIN fields(i)} : i \in present}
    IN  [k \in keys |->
            LET i == CHOOSE j \in present : metric_files[j][1] = k[1] IN fields(i)[k[2]]]

\* "return results if len(results) > 3 else None": three identity entries come first.
analyze_project_metrics ==
    /\ ran = "none"
    /\ ran' = "analyze_project_metrics"
    /\ results' = Results03(files)
    /\ returned' = (Cardinality(DOMAIN Results03(files)) + 3 > 3)
    /\ UNCHANGED <<extState, files, project_info, projects_info, cumulative_values, yearState, mergeState, classState, scoreState, mainState,
                   batchState, trendState>>

-----------------------------------------------------------------------------
(* 01_explore_data.py: collect_project_info, one project folder *)

\* latest_stars
LatestStars01(stars_data) ==
    IF IsDict(stars_data) /\ stars_data.items # <<>>
    THEN SumSeq(DictValues(stars_data.items))
    ELSE IF IsNumber(stars_data) THEN stars_data.value ELSE 0

\* activity_value
ActivityValue01(dir) ==
    IF "activity.json" \in DOMAIN dir
    THEN LET activity_data == dir["activity.json"]
         IN  IF IsDict(activity_data) /\ activity_data.items # <<>>
             THEN LET keys == SortStrings(DictKeys(activity_data.items))
                  IN  DictGet(activity_data.items, keys[Len(keys)])
             ELSE 0
    ELSE 0

collect_project_info ==
    /\ ran = "none"
    /\ ran' = "collect_project_info"
    /\ projects_info' =
          IF "stars.json" \in DOMAIN files
          THEN Append(projects_info,
                  [stars |-> LatestStars01(files["stars.json"]),
                   activity |-> ActivityValue01(files)])
          ELSE projects_info
    /\ UNCHANGED <<extState, files, project_info, results, returned, cumulative_values, yearState, mergeState, classState, scoreState, mainState,
                   batchState, trendState>>

-----------------------------------------------------------------------------
(* 03_final_analysis.py: analyze_time_series_for_selected_projects, one project *)

\* The loop that fills clean_data: only cleaned keys of the form YYYY-MM are kept.
RECURSIVE CleanData(_, _)
CleanData(items, clean_data) ==
    IF items = <<>> THEN clean_data
    ELSE LET clean_dt == clean_date(Head(items)[1])
         IN  CleanData(Tail(items),
                IF clean_dt # <<>> /\ StrContains(clean_dt, <<"-">>) /\ Len(clean_dt) = 7
                THEN DictSet(clean_data, clean_dt, Head(items)[2])
                ELSE clean_data)

\* The loop "running_total += value; cumulative_values.append(running_total)".
RECURSIVE RunningTotals(_, _, _)
RunningTotals(values, running_total, acc) ==
    IF values = <<>> THEN acc
    ELSE RunningTotals(Tail(values), running_total + Head(values),
                       Append(acc, running_total + Head(values)))

\* cumulative_values of one stars.json; nothing is plotted for other contents.
CumulativeValues(data) ==
    IF IsDict(data) /\ data.items # <<>>
    THEN LET clean_data == CleanData(data.items, <<>>)
             dates == SortStrings(DictKeys(clean_data))
             values == [i \in 1..Len(dates) |-> DictGet(clean_data, dates[i])]
         IN  IF clean_data # <<>> THEN RunningTotals(values, 0, <<>>) ELSE <<>>
    ELSE <<>>

analyze_time_series_for_selected_projects ==
    /\ ran = "none"
    /\ ran' = "analyze_time_series_for_selected_projects"
    /\ cumulative_values' =
          IF "stars.json" \in DOMAIN files
          THEN CumulativeValues(files["stars.json"])
          ELSE <<>>
    /\ UNCHANGED <<extState, files, project_info, results, returned, projects_info,
                   yearState, mergeState, classState, scoreState, mainState,
                   batchState, trendState>>

-----------------------------------------------------------------------------
(* The normalisation scripts run on one project directory *)

InitNormalize ==
    /\ ran = "none"
    /\ ExtIdle
    /\ files \in ProjectDirs
    /\ project_info = EmptyMap
    /\ results = EmptyMap
    /\ returned = FALSE
    /\ projects_info = <<>>
    /\ cumulative_values = <<>>
    /\ YearlyIdle
    /\ MergeIdle
    /\ ClassifyIdle
    /\ ScoreIdle
    /\ MainIdle
    /\ BatchIdle
    /\ TrendIdle

NextNormalize ==
    \/ analyze_multiple_metrics
    \/ analyze_project_metrics
    \/ collect_project_info
    \/ analyze_time_series_for_selected_projects

SpecNormalize == InitNormalize /\ [][NextNormalize]_vars

-----------------------------------------------------------------------------
(* Properties of normalisation *)

\* int(c) of a decimal digit
Digit(c) == CodePoint(c) - 48

\* The calendar month a key "YYYY-MM" or "YYYY-MM-raw" names, as months since year 0.
MonthOf(k) ==
    (Digit(k[1]) * 1000 + Digit(k[2]) * 100 + Digit(k[3]) * 10 + Digit(k[4])) * 12
    + Digit(k[6]) * 10 + Digit(k[7])

\* The positions of a series whose key names its chronologically first / last month.
FirstMonthAt(items) ==
    {i \in 1..Len(items) : \A j \in 1..Len(items) : MonthOf(items[i][1]) <= MonthOf(items[j][1])}
LastMonthAt(items) ==
    {i \in 1..Len(items) : \A j \in 1..Len(items) : MonthOf(items[i][1]) >= MonthOf(items[j][1])}

\* The sum of the values at a set of positions of a series.
RECURSIVE TotalAt(_, _)
TotalAt(items, at) ==
    IF at = {} THEN 0
    ELSE LET i == CHOOSE j \in at : TRUE IN items[i][2] + TotalAt(items, at \ {i})

DeltaMetricFiles == {<<"stars", "stars.json">>, <<"technical_fork", "technical_fork.json">>}
SnapshotMetricFiles == {<<"activity", "activity.json">>, <<"openrank", "openrank.json">>}

\* The fields an output mapping holds for one metric.
FieldsOf(info, metric) == {k[2] : k \in {q \in DOMAIN info : q[1] = metric}}

\* The files of the project directory that hold a series of at least n dated points.
HasSeries(file, n) ==
    /\ file \in DOMAIN files
    /\ IsDict(files[file])
    /\ Len(files[file].items) >= n

\* C1: after analyze_multiple_metrics, every delta series (stars, technical_fork)
\* with at least two dated points has its total (written to <metric>_latest) equal
\* to the sum of all its monthly values, and first / growth equal to the monthly
\* value of the chronologically first month and the difference between the monthly
\* values of the chronologically last and first months, whatever the key order of
\* the file.
C1_DeltaTotalAndGrowth ==
    ran = "analyze_multiple_metrics" =>
        \A mf \in DeltaMetricFiles :
            HasSeries(mf[2], 2) =>
                LET items == files[mf[2]].items
                IN  /\ FieldsOf(project_info, mf[1]) = {"latest", "first", "growth"}
                    /\ project_info[<<mf[1], "latest">>] = TotalAt(items, 1..Len(items))
                    /\ \E f \in FirstMonthAt(items), l \in LastMonthAt(items) :
                          /\ project_info[<<mf[1], "first">>] = items[f][2]
                          /\ project_info[<<mf[1], "growth">>] = items[l][2] - items[f][2]

\* C1: the total of a delta series with at least two dated points is the sum of
\* all its monthly values on every path that computes one: the total written by
\* analyze_multiple_metrics (with first and growth as above) and the total that
\* analyze_time_series_for_selected_projects shows, the last running total of
\* the stars series.
C1_TotalIsSumOfAllValues ==
    /\ C1_DeltaTotalAndGrowth
    /\ ran = "analyze_time_series_for_selected_projects"
          /\ HasSeries("stars.json", 2) /\ Len(cumulative_values) >= 2 =>
              LET items == files["stars.json"].items
              IN  cumulative_values[Len(cumulative_values)] = TotalAt(items, 1..Len(items))

\* C1 witness: a three-point stars series given out of chronological order whose
\* growth differs from its total and is negative.
C1_Witness ==
    /\ ran = "analyze_multiple_metrics"
    /\ HasSeries("stars.json", 3)
    /\ MonthOf(files["stars.json"].items[1][1]) > MonthOf(files["stars.json"].items[3][1])
    /\ project_info[<<"stars", "latest">>] = 280
    /\ project_info[<<"stars", "growth">>] = -70

\* C2: a snapshot series (activity, openrank) with at least two points yields only
\* latest, first and growth, and its value is the value of the chronologically last
\* month, never a sum: in analyze_multiple_metrics, in analyze_project_metrics and
\* in collect_project_info.
C2_SnapshotNeverSummed ==
    /\ ran = "analyze_multiple_metrics" =>
          \A mf \in SnapshotMetricFiles :
              HasSeries(mf[2], 2) =>
                  LET items == files[mf[2]].items
                  IN  /\ FieldsOf(project_info, mf[1]) = {"latest", "first", "growth"}
                      /\ \E l \in LastMonthAt(items) :
                            project_info[<<mf[1], "latest">>] = items[l][2]
    /\ ran = "analyze_project_metrics" =>
          \A mf \in SnapshotMetricFiles :
              HasSeries(mf[2], 2) =>
                  LET items == files[mf[2]].items
                  IN  /\ FieldsOf(results, mf[1])
                            \subseteq {"latest", "first", "growth", "start_date", "end_date"}
                      /\ \E l \in LastMonthAt(items) :
                            results[<<mf[1], "latest">>] = items[l][2]
    /\ ran = "collect_project_info" /\ HasSeries("activity.json", 2) /\ projects_info # <<>> =>
          \E l \in LastMonthAt(files["activity.json"].items) :
              projects_info[1].activity = files["activity.json"].items[l][2]

\* C2 witness: analyze_multiple_metrics has read a three-point activity series whose
\* sum (280) differs from the value kept as latest.
C2_Witness ==
    /\ ran = "analyze_multiple_metrics"
    /\ HasSeries("activity.json", 3)
    /\ TotalAt(files["activity.json"].items, 1..3) = 280
    /\ project_info[<<"activity", "latest">>] = 30
    /\ <<"activity", "growth">> \in DOMAIN project_info

\* The name analyze_project_metrics gives the metric of a file.
MetricName03(file) ==
    metric_files[CHOOSE i \in 1..Len(metric_files) : metric_files[i][2] = file][1]

\* The files of the project directory that hold a JSON object.
SeriesFiles == {f \in DOMAIN files : IsDict(files[f])}

\* The rule of C3 for a series of n dated points and the set F of fields emitted.
FieldsFitPointCount(n, F) ==
    /\ F \cap {"first", "growth"} # {} => n >= 2
    /\ n = 1 => F = {"latest"}
    /\ n = 0 => F = {}

\* C3: first and growth are emitted only for a series of at least two dated points,
\* a single-point series emits latest only, and an empty series emits no field (and
\* no zero value) for its metric: in analyze_multiple_metrics, in
\* analyze_project_metrics and in collect_project_info.
C3_FieldsByPointCount ==
    /\ ran = "analyze_multiple_metrics" =>
          \A f \in SeriesFiles :
              FieldsFitPointCount(Len(files[f].items), FieldsOf(project_info, MetricName02(f)))
    /\ ran = "analyze_project_metrics" =>
          \A f \in SeriesFiles :
              FieldsFitPointCount(Len(files[f].items), FieldsOf(results, MetricName03(f)))
    /\ ran = "collect_project_info" =>
          /\ "stars.json" \in SeriesFiles /\ files["stars.json"].items = <<>>
                => \A i \in 1..Len(projects_info) : projects_info[i].stars # 0
          /\ "activity.json" \in SeriesFiles /\ files["activity.json"].items = <<>>
                => \A i \in 1..Len(projects_info) : projects_info[i].activity # 0

\* kr is the key k with the suffix -raw.
IsRawOf(kr, k) == kr = k \o RawSuffix

\* The positions <<i, j>> of a series holding a date key and the same date with -raw.
RawPairs(items) ==
    {p \in (1..Len(items)) \X (1..Len(items)) : IsRawOf(items[p[2]][1], items[p[1]][1])}

\* What analyze_project_metrics reports of the month of a raw pair when value v is
\* the one kept for that month.
MonthKeeps(file, p, v) ==
    LET items == files[file].items
        m == MetricName03(file)
    IN  /\ p[1] \in LastMonthAt(items) => results[<<m, "latest">>] = v
        /\ p[1] \in FirstMonthAt(items) /\ "first" \in FieldsOf(results, m)
              => results[<<m, "first">>] = v
        /\ Len(items) = 2 => FieldsOf(results, m) = {"latest"}

\* C4 as stated: a date key and the same date with -raw count as one month, and the
\* value kept for it is the value of the non-raw key, whatever the key order.
C4_NonRawWins ==
    ran = "analyze_project_metrics" =>
        \A f \in SeriesFiles : \A p \in RawPairs(files[f].items) :
            MonthKeeps(f, p, files[f].items[p[1]][2])

\* C4 amended: a date key and the same date with -raw count as one month, and the
\* value kept for it is the value of whichever of the two keys comes later in the
\* file (the last write wins).
C4_LastWriteWins ==
    ran = "analyze_project_metrics" =>
        \A f \in SeriesFiles : \A p \in RawPairs(files[f].items) :
            MonthKeeps(f, p, files[f].items[IF p[1] > p[2] THEN p[1] ELSE p[2]][2])

\* C4 witness: stars.json is {"2024-02": 30, "2024-02-raw": 100} in that order and
\* the single month reported has the raw value 100.
C4_Witness ==
    /\ ran = "analyze_project_metrics"
    /\ "stars.json" \in SeriesFiles
    /\ files["stars.json"].items = <<<<K_2024_02, 30>>, <<K_2024_02_raw, 100>>>>
    /\ FieldsOf(results, "stars") = {"latest"}
    /\ results[<<"stars", "latest">>] = 100

\* The metrics whose kind the scripts know: stars and technical_fork are summed as
\* monthly deltas, activity and openrank are read as snapshots.
KnownKindMetrics == {mf[1] : mf \in DeltaMetricFiles \cup SnapshotMetricFiles}

\* C16: analyze_multiple_metrics writes nothing for a metric whose series kind is
\* none of the kinds it knows: it stops with an error and gives the series no
\* default treatment.
C16_UnknownKindAborts ==
    ran = "analyze_multiple_metrics" =>
        \A f \in DOMAIN files :
            MetricName02(f) \notin KnownKindMetrics => FieldsOf(project_info, MetricName02(f)) = {}

\* The key, with -raw removed, is a month YYYY-MM.
IsMonthKey(key) ==
    LET k == clean_date(key)
    IN  /\ Len(k) = 7
        /\ k[5] = "-"
        /\ \A i \in {1, 2, 3, 4, 6, 7} : CodePoint(k[i]) \in 48..57
        /\ Digit(k[6]) * 10 + Digit(k[7]) \in 1..12

\* The series files with a key that is no month.
MalformedFiles ==
    {f \in SeriesFiles : \E i \in 1..Len(files[f].items) : ~IsMonthKey(files[f].items[i][1])}

\* C17: analyze_project_metrics reports no field of a series that has a key which
\* is no month after -raw is removed, and still reports the other metrics of the
\* project.
C17_MalformedSeriesExcluded ==
    ran = "analyze_project_metrics" =>
        /\ \A f \in MalformedFiles : FieldsOf(results, MetricName03(f)) = {}
        /\ \A f \in SeriesFiles \ MalformedFiles :
              files[f].items # <<>> => "latest" \in FieldsOf(results, MetricName03(f))

\* C17, the part that holds: a series with a key that is no month takes nothing
\* from the other metrics of the project, which are reported as without it.
C17_OtherMetricsProcessed ==
    ran = "analyze_project_metrics" =>
        \A f \in SeriesFiles \ MalformedFiles :
            files[f].items # <<>> => "latest" \in FieldsOf(results, MetricName03(f))

-----------------------------------------------------------------------------
(* github_2025_yearly_collector.py: _generate_yearly_report *)

\* Largest number of project dicts over the three sources of one report.
MaxProjects == 3

\* sorted(...)[:50]
TopLimit == 50

\* d.get(f, default)
RecGet(d, f, default) == IF f \in DOMAIN d THEN d[f] ELSE default

ProjectNames == {"org/repo", "org/other"}

\* What the search API parsers build (stars_count always set, 0 for a repository
\* nobody starred), and what a monthly file read back from disk may also hold (no
\* stars_count).
StarredContents == {[full_name |-> n, stars_count |-> s] : n \in ProjectNames, s \in {0, 500, 900}}
UnstarredContents == {[full_name |-> n, openrank |-> 72] : n \in ProjectNames}

\* The project dicts of the three sources: c[1..a] are the month's, c[a+1..b] the
\* language's, the rest the hot projects.  oid is the identity of the dict object.
MonthlyOf(c, a) ==
    IF a = 0 THEN <<>>
    ELSE << <<"2025-01", [i \in 1..a |-> c[i] @@ ("month" :> "2025-01") @@ ("oid" :> i)]>> >>
LanguageOf(c, a, b) ==
    IF b = a THEN <<>>
    ELSE << <<"Python", [i \in 1..(b - a) |->
                c[a + i] @@ ("language" :> "Python") @@ ("oid" :> a + i)]>> >>
HotOf(c, b, n) ==
    [i \in 1..(n - b) |-> c[b + i] @@ ("rank" :> i) @@ ("oid" :> b + i)]

\* The lists of a dict of lists, one after the other.
RECURSIVE Flatten(_)
Flatten(lists) == IF lists = <<>> THEN <<>> ELSE Head(lists) \o Flatten(Tail(lists))

\* all_projects: the month lists, then the language lists, then the hot projects.
AllProjects(md, ld, hp) == Flatten(DictValues(md)) \o Flatten(DictValues(ld)) \o hp

\* project.get('stars_count', 0)
StarsCount(project) == RecGet(project, "stars_count", 0)

\* One pass of the dedup loop that merges the fields of the two candidates.
MergeFieldsStep(unique, project) ==
    LET key == project["full_name"]
    IN  IF ~DictHas(unique, key) THEN DictSet(unique, key, project)
        ELSE IF StarsCount(project) > StarsCount(DictGet(unique, key))
             THEN DictSet(unique, key, project @@ DictGet(unique, key))
             ELSE DictSet(unique, key, DictGet(unique, key) @@ project)

\* One pass of the dedup loop that keeps the candidate seen first.
KeepFirstStep(unique, project) ==
    IF DictHas(unique, project["full_name"]) THEN unique
    ELSE DictSet(unique, project["full_name"], project)

\* One pass of the dedup loop that keeps the candidate seen last.
KeepLastStep(unique, project) == DictSet(unique, project["full_name"], project)

\* One pass of "for project in all_projects": the dict entry is set when the key is
\* new or the project has strictly more stars than the one held.
DedupStep(unique, project) ==
    LET key == project["full_name"]
    IN  IF ~DictHas(unique, key) \/ StarsCount(project) > StarsCount(DictGet(unique, key))
        THEN DictSet(unique, key, project)
        ELSE unique

RECURSIVE DedupFold(_, _)
DedupFold(unique, projects) ==
    IF projects = <<>> THEN unique
    ELSE DedupFold(DedupStep(unique, Head(projects)), Tail(projects))

\* The dedup loop started at the second candidate.
DedupSkipFirst(all_projects) ==
    DedupFold(<<>>, IF all_projects = <<>> THEN <<>> ELSE Tail(all_projects))

\* unique_projects after the loop
DedupProjects(all_projects) == DedupFold(<<>>, all_projects)

\* sorted(..., key=stars_count, reverse=True): stable, equal keys keep their order.
RECURSIVE InsertByStars(_, _)
InsertByStars(sorted, p) ==
    IF sorted = <<>> THEN <<p>>
    ELSE IF StarsCount(Head(sorted)) >= StarsCount(p)
         THEN <<Head(sorted)>> \o InsertByStars(Tail(sorted), p)
         ELSE <<p>> \o sorted
RECURSIVE SortFold(_, _)
SortFold(sorted, rest) ==
    IF rest = <<>> THEN sorted ELSE SortFold(InsertByStars(sorted, Head(rest)), Tail(rest))
SortedByStars(projects) == SortFold(<<>>, projects)

\* [:50]
TopSlice(projects) ==
    SubSeq(projects, 1, IF Len(projects) < TopLimit THEN Len(projects) ELSE TopLimit)

\* "project['rank'] = i + 1" on every dict of top_projects
Ranked(top) == [i \in 1..Len(top) |-> ("rank" :> i) @@ top[i]]

\* A dict as seen after the rank loop: the dicts in top_projects are the very
\* objects held by the sources and by unique_projects, so they show the new rank.
Seen(project, ranked) ==
    IF \E j \in 1..Len(ranked) : ranked[j]["oid"] = project["oid"]
    THEN ("rank" :> (CHOOSE j \in 1..Len(ranked) : ranked[j]["oid"] = project["oid"])) @@ project
    ELSE project
SeenList(projects, ranked) == [i \in 1..Len(projects) |-> Seen(projects[i], ranked)]
SeenDictOfLists(d, ranked) == [i \in 1..Len(d) |-> <<d[i][1], SeenList(d[i][2], ranked)>>]

\* The body of _generate_yearly_report.
YearlyReport ==
    LET unique == DedupProjects(AllProjects(monthly_data, language_data, hot_projects))
        ranked == Ranked(TopSlice(SortedByStars(DictValues(unique))))
    IN  /\ unique_projects' = [i \in 1..Len(unique) |-> <<unique[i][1], Seen(unique[i][2], ranked)>>]
        /\ top_projects' = ranked
        /\ monthly_data' = SeenDictOfLists(monthly_data, ranked)
        /\ language_data' = SeenDictOfLists(language_data, ranked)
        /\ hot_projects' = SeenList(hot_projects, ranked)

generate_yearly_report ==
    /\ ran = "none"
    /\ ran' = "generate_yearly_report"
    /\ YearlyReport
    /\ UNCHANGED <<extState, normState, mergeState, classState, scoreState, mainState,
                   batchState, trendState>>

InitYearly ==
    /\ ran = "none"
    /\ ExtIdle
    /\ NormalizeIdle
    /\ MergeIdle
    /\ ClassifyIdle
    /\ ScoreIdle
    /\ MainIdle
    /\ BatchIdle
    /\ TrendIdle
    /\ unique_projects = <<>>
    /\ top_projects = <<>>
    /\ \E n \in 0..MaxProjects : \E a \in 0..n : \E b \in a..n :
          \E c \in [1..n -> StarredContents \cup UnstarredContents] :
              /\ \A i \in (a + 1)..n : c[i] \in StarredContents
              /\ monthly_data = MonthlyOf(c, a)
              /\ language_data = LanguageOf(c, a, b)
              /\ hot_projects = HotOf(c, b, n)

NextYearly == generate_yearly_report

SpecYearly == InitYearly /\ [][NextYearly]_vars

-----------------------------------------------------------------------------
(* Properties of the deduplication of _generate_yearly_report *)

\* The candidates of the report, as the sources hold them.
Candidates == AllProjects(monthly_data, language_data, hot_projects)

\* Every order in which the candidates xs can be given.
Orders(xs) == {[i \in 1..Len(xs) |-> xs[p[i]]] : p \in Permutations(1..Len(xs))}

\* The entries of a dict, without their order.
Entries(d) == {d[i] : i \in 1..Len(d)}

\* The fields of a candidate that a source gave it: not the identity of the dict
\* object, and not the rank, which the rank loop overwrites after the dedup.
Content(project) == [f \in DOMAIN project \ {"oid", "rank"} |-> project[f]]
ContentEntries(d) == {<<d[i][1], Content(d[i][2])>> : i \in 1..Len(d)}

\* The candidates of xs for one full_name, and the most stars among them.
CandidatesAt(xs, name) == {i \in 1..Len(xs) : xs[i]["full_name"] = name}
BestAt(xs, name) ==
    {i \in CandidatesAt(xs, name) :
        \A j \in CandidatesAt(xs, name) : StarsCount(xs[i]) >= StarsCount(xs[j])}

\* The candidates for name are exactly one with stars=500 and no openrank (A) and
\* one with no stars and openrank=7.2 (B), held here as 72 tenths.
IsScenarioAB(xs, name) ==
    /\ Cardinality(CandidatesAt(xs, name)) = 2
    /\ \E a, b \in CandidatesAt(xs, name) :
          /\ RecGet(xs[a], "stars_count", -1) = 500 /\ "openrank" \notin DOMAIN xs[a]
          /\ "stars_count" \notin DOMAIN xs[b] /\ RecGet(xs[b], "openrank", -1) = 72

C8_DedupIdempotent ==
    ran = "generate_yearly_report" =>
        DedupProjects(DictValues(unique_projects)) = unique_projects

\* C8 witness: three candidates, two of them for one full_name, left two records.
C8_Witness ==
    /\ ran = "generate_yearly_report"
    /\ Len(Candidates) = 3
    /\ Len(unique_projects) = 2
    /\ DedupProjects(DictValues(unique_projects)) = unique_projects

-----------------------------------------------------------------------------
(* 04_expand_project_analysis.py: load_and_merge_data *)

\* Largest number of rows over complete_total_stars_ranking.csv and top_100_projects.csv.
MaxRows == 3

\* An empty CSV cell read by pandas: the float NaN, which compares False with
\* every number.  Metric values are whole numbers here, openrank in tenths.
NaN == -999999
IsNaN(x) == x = NaN
FloatGreater(x, y) == ~IsNaN(x) /\ ~IsNaN(y) /\ x > y

CompleteRows ==
    {[full_name |-> n, total_stars |-> s, openrank_latest |-> o] :
        n \in ProjectNames, s \in {100, 500}, o \in {NaN, 0, 72}}
Top100Rows == {[full_name |-> n, stars |-> s] : n \in ProjectNames, s \in {100, 900}}
ImprovedRows == {[full_name |-> n, openrank_latest |-> o] : n \in ProjectNames, o \in {NaN, 72}}

SeqsUpTo(S, n) == UNION {[1..k -> S] : k \in 0..n}

\* Step 1: every row of the complete source, tagged complete_ranking; the rank
\* column of the file is the row's position.
FromComplete(complete) ==
    [i \in 1..Len(complete) |->
        [rank |-> i,
         full_name |-> complete[i]["full_name"],
         total_stars |-> complete[i]["total_stars"],
         openrank_latest |-> complete[i]["openrank_latest"],
         source |-> "complete_ranking"]]

\* Step 2: the loop over top100_df; existing_names is the set built before the loop.
\* openrank_latest is the first match in improved_df, else 0.0 ("marked missing");
\* total_stars is the row's stars.
RECURSIVE AddFromTop100(_, _, _, _)
AddFromTop100(extended_projects, existing_names, top100, improved) ==
    IF top100 = <<>> THEN extended_projects
    ELSE LET row == Head(top100)
             match == SelectSeq(improved, LAMBDA m : m["full_name"] = row["full_name"])
         IN  IF row["full_name"] \notin existing_names
             THEN AddFromTop100(
                     Append(extended_projects,
                        [rank |-> Len(extended_projects) + 1,
                         full_name |-> row["full_name"],
                         total_stars |-> row["stars"],
                         openrank_latest |->
                            IF match # <<>> THEN match[1]["openrank_latest"] ELSE 0,
                         source |-> "top100_only"]),
                     existing_names, Tail(top100), improved)
             ELSE AddFromTop100(extended_projects, existing_names, Tail(top100), improved)

\* extended_projects after both steps
ExtendedProjects(complete, top100, improved) ==
    LET first == FromComplete(complete)
    IN  AddFromTop100(first, {first[i]["full_name"] : i \in 1..Len(first)}, top100, improved)

\* The rows in any order, as if sort_values had not been called.
AnyOrders(rows, col) ==
    {[i \in 1..Len(rows) |-> rows[p[i]]] : p \in Permutations(1..Len(rows))}

\* df.sort_values(col, ascending=False) with the default quicksort: descending, the
\* order of rows with equal values not fixed.
DescOrders(rows, col) ==
    {[i \in 1..Len(rows) |-> rows[p[i]]] :
        p \in {q \in Permutations(1..Len(rows)) :
                 \A i, j \in 1..Len(rows) : i < j => rows[q[i]][col] >= rows[q[j]][col]}}

\* extended_df['openrank_latest'] > 0
HasOpenrank(row) == FloatGreater(row["openrank_latest"], 0)

\* final_df with the rank column as the rows had it before the assignment.
NotReranked(rows) == rows

\* final_df['rank'] = range(1, len(final_df) + 1)
Reranked(rows) == [i \in 1..Len(rows) |-> [rows[i] EXCEPT !["rank"] = i]]

\* An empty extended_projects gives a DataFrame without columns, and
\* extended_df['openrank_latest'] raises KeyError.
load_and_merge_data ==
    /\ ran = "none"
    /\ ran' = "load_and_merge_data"
    /\ LET extended_df == ExtendedProjects(complete_df, top100_df, improved_df)
       IN  IF extended_df = <<>>
           THEN /\ raised' = "KeyError"
                /\ final_df' = <<>>
           ELSE /\ raised' = "none"
                /\ \E df_with_openrank \in
                        DescOrders(SelectSeq(extended_df, HasOpenrank), "openrank_latest") :
                   \E df_without_openrank \in
                        DescOrders(SelectSeq(extended_df, LAMBDA r : ~HasOpenrank(r)), "total_stars") :
                      final_df' = Reranked(df_with_openrank \o df_without_openrank)
    /\ UNCHANGED <<extState, normState, yearState, classState, scoreState, mainState, complete_df, top100_df, improved_df,
                   batchState, trendState>>

InitMerge ==
    /\ ran = "none"
    /\ ExtIdle
    /\ NormalizeIdle
    /\ YearlyIdle
    /\ ClassifyIdle
    /\ ScoreIdle
    /\ MainIdle
    /\ BatchIdle
    /\ TrendIdle
    /\ final_df = <<>>
    /\ raised = "none"
    /\ complete_df \in SeqsUpTo(CompleteRows, MaxRows)
    /\ top100_df \in SeqsUpTo(Top100Rows, MaxRows - Len(complete_df))
    /\ improved_df \in SeqsUpTo(ImprovedRows, 1)

NextMerge == load_and_merge_data

SpecMerge == InitMerge /\ [][NextMerge]_vars

\* C5: the rows returned by load_and_merge_data hold at most one row per full_name,
\* whatever the sources hold, a source listing one full_name twice included.
C5_UniqueFullName ==
    ran = "load_and_merge_data" =>
        \A i, j \in 1..Len(final_df) :
            final_df[i]["full_name"] = final_df[j]["full_name"] => i = j

-----------------------------------------------------------------------------
(* Ranking: load_and_merge_data and _generate_yearly_report on their inputs *)

InitRanking == InitMerge \/ InitYearly

NextRanking ==
    \/ load_and_merge_data
    \/ generate_yearly_report

SpecRanking == InitRanking /\ [][NextRanking]_vars

\* The rank values of a list of records are 1..N in list order.
RanksInOrder(rows) == \A i \in 1..Len(rows) : rows[i]["rank"] = i

\* C11: the rows load_and_merge_data returns and the list top_projects of
\* _generate_yearly_report carry the ranks 1..N in output order, without gap or
\* repeat, whatever rank the records carried in their source.
C11_RanksAreOneToN ==
    /\ ran = "load_and_merge_data" /\ raised = "none" => RanksInOrder(final_df)
    /\ ran = "generate_yearly_report" => RanksInOrder(top_projects)

\* C11 witness: three rows were merged and the first row returned is one that
\* top100 added, which carried a rank above 1 before the ranks were assigned.
C11_Witness ==
    /\ ran = "load_and_merge_data"
    /\ Len(final_df) = 3
    /\ final_df[1]["source"] = "top100_only"
    /\ Len(complete_df) >= 1
    /\ RanksInOrder(final_df)

\* The largest of a non-empty set of numbers.
MaxOf(S) == CHOOSE v \in S : \A w \in S : w <= v

\* The stars values the sources hold for a full_name in load_and_merge_data.
MergeStarsAt(name) ==
    {complete_df[i]["total_stars"] : i \in {k \in 1..Len(complete_df) : complete_df[k]["full_name"] = name}}
    \cup {top100_df[i]["stars"] : i \in {k \in 1..Len(top100_df) : top100_df[k]["full_name"] = name}}

InComplete(name) == \E i \in 1..Len(complete_df) : complete_df[i]["full_name"] = name
InTop100(name) == \E i \in 1..Len(top100_df) : top100_df[i]["full_name"] = name

RowsOf(name) == {i \in 1..Len(final_df) : final_df[i]["full_name"] = name}

\* C20: a project that both sources hold is returned once, tagged complete_ranking,
\* and a project only top100 holds is tagged top100_only.
C20_SourcePriority ==
    ran = "load_and_merge_data" /\ raised = "none" =>
        \A name \in ProjectNames :
            /\ InComplete(name) /\ InTop100(name) =>
                  /\ Cardinality(RowsOf(name)) = 1
                  /\ \A i \in RowsOf(name) : final_df[i]["source"] = "complete_ranking"
            /\ ~InComplete(name) /\ InTop100(name) =>
                  /\ RowsOf(name) # {}
                  /\ \A i \in RowsOf(name) : final_df[i]["source"] = "top100_only"

\* C20, the tags alone: every row returned for a project the complete source holds
\* is tagged complete_ranking, there are as many of them as the complete source has
\* rows for it, and every row for a project only top100 holds is tagged top100_only.
C20_TagsBySource ==
    ran = "load_and_merge_data" /\ raised = "none" =>
        \A name \in ProjectNames :
            /\ InComplete(name) =>
                  /\ Cardinality(RowsOf(name))
                        = Cardinality({k \in 1..Len(complete_df) : complete_df[k]["full_name"] = name})
                  /\ \A i \in RowsOf(name) : final_df[i]["source"] = "complete_ranking"
            /\ ~InComplete(name) /\ InTop100(name) =>
                  /\ RowsOf(name) # {}
                  /\ \A i \in RowsOf(name) : final_df[i]["source"] = "top100_only"

\* The openrank of a returned row is unknown: the complete file or the improved
\* file had an empty cell for it, or the row came from top100 and the improved file
\* has no row of that name.
OpenrankUnknown(row) ==
    \/ IsNaN(row["openrank_latest"])
    \/ /\ row["source"] = "top100_only"
       /\ \A k \in 1..Len(improved_df) : improved_df[k]["full_name"] # row["full_name"]

\* C12: in the rows load_and_merge_data returns, every row whose openrank is
\* unknown has a rank strictly greater than every row whose openrank is known,
\* whatever their total_stars are.
C12_MissingAfterKnown ==
    ran = "load_and_merge_data" /\ raised = "none" =>
        \A i, j \in 1..Len(final_df) :
            ~OpenrankUnknown(final_df[i]) /\ OpenrankUnknown(final_df[j])
                => final_df[i]["rank"] < final_df[j]["rank"]

\* C12, for the rows the code takes as having openrank: every row with a positive
\* openrank has a rank strictly smaller than every other row.
C12_PositiveBeforeRest ==
    ran = "load_and_merge_data" /\ raised = "none" =>
        \A i, j \in 1..Len(final_df) :
            HasOpenrank(final_df[i]) /\ ~HasOpenrank(final_df[j])
                => final_df[i]["rank"] < final_df[j]["rank"]

\* C13: a row whose openrank is unknown never holds 0 as its openrank_latest, and
\* a row whose openrank is known to be 0 is ranked with the rows that have
\* openrank, before every row whose openrank is unknown.
C13_MissingNeverZero ==
    ran = "load_and_merge_data" /\ raised = "none" =>
        /\ \A j \in 1..Len(final_df) :
              OpenrankUnknown(final_df[j]) => final_df[j]["openrank_latest"] # 0
        /\ \A i, j \in 1..Len(final_df) :
              /\ ~OpenrankUnknown(final_df[i])
              /\ final_df[i]["openrank_latest"] = 0
              /\ OpenrankUnknown(final_df[j])
              => i < j

-----------------------------------------------------------------------------
(* 04_expand_project_analysis.py: enhanced_classify_project_type *)

\* Largest length of the generated project names.
MaxNameLen == 2

\* str.lower() on one character
Lower(c) ==
    CASE c = "A" -> "a"
      [] c = "B" -> "b"
      [] c = "C" -> "c"
      [] c = "D" -> "d"
      [] c = "E" -> "e"
      [] c = "F" -> "f"
      [] c = "G" -> "g"
      [] c = "H" -> "h"
      [] c = "I" -> "i"
      [] c = "J" -> "j"
      [] c = "K" -> "k"
      [] c = "L" -> "l"
      [] c = "M" -> "m"
      [] c = "N" -> "n"
      [] c = "O" -> "o"
      [] c = "P" -> "p"
      [] c = "Q" -> "q"
      [] c = "R" -> "r"
      [] c = "S" -> "s"
      [] c = "T" -> "t"
      [] c = "U" -> "u"
      [] c = "V" -> "v"
      [] c = "W" -> "w"
      [] c = "X" -> "x"
      [] c = "Y" -> "y"
      [] c = "Z" -> "z"
      [] OTHER -> c

\* project_name.lower()
LowerStr(name) == [i \in 1..Len(name) |-> Lower(name[i])]

\* line 118: vscode, studio, ide, editor, debugger, terminal, jupyter  ->  Development Tools
KwDevTools ==
    { <<"v","s","c","o","d","e">>,
      <<"s","t","u","d","i","o">>,
      <<"i","d","e">>,
      <<"e","d","i","t","o","r">>,
      <<"d","e","b","u","g","g","e","r">>,
      <<"t","e","r","m","i","n","a","l">>,
      <<"j","u","p","y","t","e","r">> }

\* line 122: typescript, python, go, rust, cpp, cpython, node, electron, java, kotlin, swift  ->  Programming Languages
KwLanguages ==
    { <<"t","y","p","e","s","c","r","i","p","t">>,
      <<"p","y","t","h","o","n">>,
      <<"g","o">>,
      <<"r","u","s","t">>,
      <<"c","p","p">>,
      <<"c","p","y","t","h","o","n">>,
      <<"n","o","d","e">>,
      <<"e","l","e","c","t","r","o","n">>,
      <<"j","a","v","a">>,
      <<"k","o","t","l","i","n">>,
      <<"s","w","i","f","t">> }

\* line 126: kubernetes, docker, container, minikube, orchestration  ->  Container Orchestration
KwContainers ==
    { <<"k","u","b","e","r","n","e","t","e","s">>,
      <<"d","o","c","k","e","r">>,
      <<"c","o","n","t","a","i","n","e","r">>,
      <<"m","i","n","i","k","u","b","e">>,
      <<"o","r","c","h","e","s","t","r","a","t","i","o","n">> }

\* line 130: pytorch, tensorflow, ai, ml, machine, learning, onnx, tvm, hudi  ->  Artificial Intelligence
KwAI ==
    { <<"p","y","t","o","r","c","h">>,
      <<"t","e","n","s","o","r","f","l","o","w">>,
      <<"a","i">>,
      <<"m","l">>,
      <<"m","a","c","h","i","n","e">>,
      <<"l","e","a","r","n","i","n","g">>,
      <<"o","n","n","x">>,
      <<"t","v","m">>,
      <<"h","u","d","i">> }

\* line 134: react, angular, vue, ui, frontend, ant-design, fluentui, material  ->  Frontend Frameworks
KwFrontend ==
    { <<"r","e","a","c","t">>,
      <<"a","n","g","u","l","a","r">>,
      <<"v","u","e">>,
      <<"u","i">>,
      <<"f","r","o","n","t","e","n","d">>,
      <<"a","n","t","-","d","e","s","i","g","n">>,
      <<"f","l","u","e","n","t","u","i">>,
      <<"m","a","t","e","r","i","a","l">> }

\* line 138: spring, django, flask, express, fastapi, server, backend, framework  ->  Backend Frameworks
KwBackend ==
    { <<"s","p","r","i","n","g">>,
      <<"d","j","a","n","g","o">>,
      <<"f","l","a","s","k">>,
      <<"e","x","p","r","e","s","s">>,
      <<"f","a","s","t","a","p","i">>,
      <<"s","e","r","v","e","r">>,
      <<"b","a","c","k","e","n","d">>,
      <<"f","r","a","m","e","w","o","r","k">> }

\* line 142: spark, flink, hadoop, kafka, database, sql, nosql, mongodb, postgresql, mysql, superset, doris, arrow, beam  ->  Big Data / Databases
KwBigData ==
    { <<"s","p","a","r","k">>,
      <<"f","l","i","n","k">>,
      <<"h","a","d","o","o","p">>,
      <<"k","a","f","k","a">>,
      <<"d","a","t","a","b","a","s","e">>,
      <<"s","q","l">>,
      <<"n","o","s","q","l">>,
      <<"m","o","n","g","o","d","b">>,
      <<"p","o","s","t","g","r","e","s","q","l">>,
      <<"m","y","s","q","l">>,
      <<"s","u","p","e","r","s","e","t">>,
      <<"d","o","r","i","s">>,
      <<"a","r","r","o","w">>,
      <<"b","e","a","m">> }

\* line 146: aws, azure, gcp, cloud, wsl, serverless, api, gateway, apisix, pulsar  ->  Cloud / Infrastructure
KwCloud ==
    { <<"a","w","s">>,
      <<"a","z","u","r","e">>,
      <<"g","c","p">>,
      <<"c","l","o","u","d">>,
      <<"w","s","l">>,
      <<"s","e","r","v","e","r","l","e","s","s">>,
      <<"a","p","i">>,
      <<"g","a","t","e","w","a","y">>,
      <<"a","p","i","s","i","x">>,
      <<"p","u","l","s","a","r">> }

\* line 150: ci, cd, pipeline, automation, deployment, devops, jenkins, gitlab, github-actions  ->  DevOps/CI-CD
KwDevOps ==
    { <<"c","i">>,
      <<"c","d">>,
      <<"p","i","p","e","l","i","n","e">>,
      <<"a","u","t","o","m","a","t","i","o","n">>,
      <<"d","e","p","l","o","y","m","e","n","t">>,
      <<"d","e","v","o","p","s">>,
      <<"j","e","n","k","i","n","s">>,
      <<"g","i","t","l","a","b">>,
      <<"g","i","t","h","u","b","-","a","c","t","i","o","n","s">> }

\* line 154: powertoys, utility, tool, cli, command, script, automation, cert, practice, winget  ->  Utilities
KwUtilities ==
    { <<"p","o","w","e","r","t","o","y","s">>,
      <<"u","t","i","l","i","t","y">>,
      <<"t","o","o","l">>,
      <<"c","l","i">>,
      <<"c","o","m","m","a","n","d">>,
      <<"s","c","r","i","p","t">>,
      <<"a","u","t","o","m","a","t","i","o","n">>,
      <<"c","e","r","t">>,
      <<"p","r","a","c","t","i","c","e">>,
      <<"w","i","n","g","e","t">> }

\* line 158: docs, documentation, website, blog, guide, tutorial  ->  Docs / Websites
KwDocs ==
    { <<"d","o","c","s">>,
      <<"d","o","c","u","m","e","n","t","a","t","i","o","n">>,
      <<"w","e","b","s","i","t","e">>,
      <<"b","l","o","g">>,
      <<"g","u","i","d","e">>,
      <<"t","u","t","o","r","i","a","l">> }

\* line 162: mobile, ios, android, flutter, react-native, xamarin  ->  Mobile Development
KwMobile ==
    { <<"m","o","b","i","l","e">>,
      <<"i","o","s">>,
      <<"a","n","d","r","o","i","d">>,
      <<"f","l","u","t","t","e","r">>,
      <<"r","e","a","c","t","-","n","a","t","i","v","e">>,
      <<"x","a","m","a","r","i","n">> }

\* line 166: game, unity, unreal, gaming, 3d  ->  Game Development
KwGames ==
    { <<"g","a","m","e">>,
      <<"u","n","i","t","y">>,
      <<"u","n","r","e","a","l">>,
      <<"g","a","m","i","n","g">>,
      <<"3","d">> }

\* any(keyword in project_name_lower for keyword in [...])
MatchesAny(project_name_lower, keywords) ==
    \E keyword \in keywords : StrContains(project_name_lower, keyword)

\* The elif branches after the first test, down to the final else.
ClassifyAfterDevTools(project_name_lower) ==
    IF MatchesAny(project_name_lower, KwLanguages) THEN "Programming Languages"
    ELSE IF MatchesAny(project_name_lower, KwContainers) THEN "Container Orchestration"
    ELSE IF MatchesAny(project_name_lower, KwAI) THEN "Artificial Intelligence"
    ELSE IF MatchesAny(project_name_lower, KwFrontend) THEN "Frontend Frameworks"
    ELSE IF MatchesAny(project_name_lower, KwBackend) THEN "Backend Frameworks"
    ELSE IF MatchesAny(project_name_lower, KwBigData) THEN "Big Data / Databases"
    ELSE IF MatchesAny(project_name_lower, KwCloud) THEN "Cloud / Infrastructure"
    ELSE IF MatchesAny(project_name_lower, KwDevOps) THEN "DevOps/CI-CD"
    ELSE IF MatchesAny(project_name_lower, KwUtilities) THEN "Utilities"
    ELSE IF MatchesAny(project_name_lower, KwDocs) THEN "Docs / Websites"
    ELSE IF MatchesAny(project_name_lower, KwMobile) THEN "Mobile Development"
    ELSE IF MatchesAny(project_name_lower, KwGames) THEN "Game Development"
    ELSE "Other"

\* The chain with the container group tested before the development tools.
ClassifyContainersFirst(project_name_lower) ==
    IF MatchesAny(project_name_lower, KwContainers) THEN "Container Orchestration"
    ELSE IF MatchesAny(project_name_lower, KwDevTools) THEN "Development Tools"
    ELSE ClassifyAfterDevTools(project_name_lower)

\* The if / elif chain on the lowered name.
ClassifyLowered(project_name_lower) ==
    IF MatchesAny(project_name_lower, KwDevTools) THEN "Development Tools"
    ELSE ClassifyAfterDevTools(project_name_lower)

\* The classifier without the call of lower().
ClassifyWithoutLower(name) == ClassifyLowered(name)

enhanced_classify_project_type(name) == ClassifyLowered(LowerStr(name))

NameAlphabet == {"a", "i", "g", "o", "c", "d", "u", "A", "I", "-"}

ProjectNameSamples ==
    { <<>>,
      <<"v","s","c","o","d","e","-","d","o","c","k","e","r","-","e","x","t","e","n","s","i","o","n">>,
      <<"V","S","C","o","d","e">>,
      <<"k","u","b","e","r","n","e","t","e","s">>,
      <<"d","j","a","n","g","o">>,
      <<"m","o","n","g","o","d","b">>,
      <<"g","u","i","d","e">>,
      <<"r","e","a","c","t","-","n","a","t","i","v","e">>,
      <<"a","u","t","o","m","a","t","i","o","n">>,
      <<"P","o","w","e","r","T","o","y","s">>,
      <<"T","y","p","e","S","c","r","i","p","t">>,
      <<"p","y","t","o","r","c","h">>,
      <<"U","n","i","t","y","3","D">>,
      <<"d","o","c","s">>,
      <<"W","S","L">>,
      <<"z","z","z">>,
      <<"f","l","u","t","t","e","r">>,
      <<"s","u","p","e","r","s","e","t">>,
      <<"f","a","s","t","a","p","i">>,
      <<"r","a","i","l","s">> }

ProjectNameInputs ==
    ProjectNameSamples \cup UNION {[1..k -> NameAlphabet] : k \in 0..MaxNameLen}

\* One call of the classifier; main() applies it to every row, so a name may be
\* given again.
classify ==
    /\ ran' = "enhanced_classify_project_type"
    /\ project_type' = enhanced_classify_project_type(project_name)
    /\ UNCHANGED <<extState, project_name, normState, yearState, mergeState, scoreState, mainState,
                   batchState, trendState>>

\* main() goes on to the next row's name.
next_name ==
    /\ ran = "enhanced_classify_project_type"
    /\ ran' = "none"
    /\ project_name' \in ProjectNameInputs
    /\ project_type' = ""
    /\ UNCHANGED <<extState, normState, yearState, mergeState, scoreState, mainState,
                   batchState, trendState>>

InitClassify ==
    /\ ran = "none"
    /\ ExtIdle
    /\ NormalizeIdle
    /\ YearlyIdle
    /\ MergeIdle
    /\ ScoreIdle
    /\ MainIdle
    /\ BatchIdle
    /\ TrendIdle
    /\ project_name \in ProjectNameInputs
    /\ project_type = ""

NextClassify == classify \/ next_name

SpecClassify == InitClassify /\ [][NextClassify]_vars

-----------------------------------------------------------------------------
(* Properties of the classifier *)

\* The keyword groups in the order the function tests them, each with its category.
KeywordGroups ==
    <<<<"Development Tools", KwDevTools>>,
       <<"Programming Languages", KwLanguages>>,
       <<"Container Orchestration", KwContainers>>,
       <<"Artificial Intelligence", KwAI>>,
       <<"Frontend Frameworks", KwFrontend>>,
       <<"Backend Frameworks", KwBackend>>,
       <<"Big Data / Databases", KwBigData>>,
       <<"Cloud / Infrastructure", KwCloud>>,
       <<"DevOps/CI-CD", KwDevOps>>,
       <<"Utilities", KwUtilities>>,
       <<"Docs / Websites", KwDocs>>,
       <<"Mobile Development", KwMobile>>,
       <<"Game Development", KwGames>>>>

Categories == {KeywordGroups[g][1] : g \in 1..Len(KeywordGroups)} \cup {"Other"}

\* The groups with a keyword that occurs in the name, letter case ignored.
MatchingGroups(name) ==
    {g \in 1..Len(KeywordGroups) :
        \E keyword \in KeywordGroups[g][2] :
            \E i \in 1..Len(name) :
                /\ i + Len(keyword) - 1 <= Len(name)
                /\ \A j \in 1..Len(keyword) : Lower(name[i + j - 1]) = keyword[j]}

\* The category is one of the taxonomy, and it is Other if and only if no keyword
\* of any group occurs in the name (letter case ignored).
OneCategoryOtherIffNoMatch ==
    ran = "enhanced_classify_project_type" =>
        /\ project_type \in Categories
        /\ project_type = "Other" <=> MatchingGroups(project_name) = {}

\* C9: the classifier is total and deterministic: every name, the empty one
\* included, gets exactly one category of the fixed taxonomy, and the category is
\* Other if and only if no keyword of any group occurs in the name (letter case
\* ignored); a call on a name already classified returns the same category again.
C9_TotalAndDeterministic ==
    /\ []OneCategoryOtherIffNoMatch
    /\ [][ran = "enhanced_classify_project_type" /\ ran' = ran /\ project_name' = project_name
            => project_type' = project_type]_vars

\* C9 witness: the empty name, in which no keyword occurs, has been classified
\* and is Other.
C9_Witness ==
    /\ ran = "enhanced_classify_project_type"
    /\ project_name = <<>>
    /\ MatchingGroups(project_name) = {}
    /\ project_type = "Other"

\* C10: the category is that of the first group, in the order of KeywordGroups,
\* with a keyword occurring in the name (letter case ignored); a name matching
\* several groups gets the earliest, and vscode-docker-extension is Development
\* Tools, not Container Orchestration.
C10_FirstMatchingGroupWins ==
    ran = "enhanced_classify_project_type" =>
        /\ MatchingGroups(project_name) # {} =>
              \E g \in MatchingGroups(project_name) :
                  /\ \A h \in MatchingGroups(project_name) : g <= h
                  /\ project_type = KeywordGroups[g][1]
        /\ project_name = <<"v","s","c","o","d","e","-","d","o","c","k","e","r","-","e","x","t","e","n","s","i","o","n">>
              => project_type = "Development Tools"

\* C10 witness: vscode-docker-extension matches the development tools group and
\* the container group, and has been classified as Development Tools.
C10_Witness ==
    /\ ran = "enhanced_classify_project_type"
    /\ project_name = <<"v","s","c","o","d","e","-","d","o","c","k","e","r","-","e","x","t","e","n","s","i","o","n">>
    /\ {1, 3} \subseteq MatchingGroups(project_name)
    /\ project_type = "Development Tools"

-----------------------------------------------------------------------------
(* 03_final_analysis.py: analyze_project_growth, the composite score *)

\* Largest number of rows of the frame analyze_top_projects_across_orgs returns.
MaxDfRows == 3

\* A row of the frame: a metric a project has no file for is NaN in its column.
ScoreRows ==
    [stars_latest : {NaN, 10, 40},
     openrank_latest : {NaN, 10, 20, 40},
     activity_latest : {NaN, 40}]

required_cols == <<"stars_latest", "openrank_latest", "activity_latest">>

\* col in df.columns: some row of the list of dicts has the key.
InColumns(rows, col) == \E i \in 1..Len(rows) : ~IsNaN(rows[i][col])

\* available_cols
AvailableCols(rows) == {c \in {required_cols[k] : k \in 1..3} : InColumns(rows, c)}

\* df[col].max() and df[col].min(): NaN cells are skipped.
ColMax(rows, col) ==
    CHOOSE v \in {rows[i][col] : i \in 1..Len(rows)} \ {NaN} :
        \A i \in 1..Len(rows) : IsNaN(rows[i][col]) \/ rows[i][col] <= v
ColMin(rows, col) ==
    CHOOSE v \in {rows[i][col] : i \in 1..Len(rows)} \ {NaN} :
        \A i \in 1..Len(rows) : IsNaN(rows[i][col]) \/ rows[i][col] >= v

\* A float result as an exact fraction; the denominator 0 stands for NaN.
Frac(n, d) == [num |-> n, den |-> d]
FracNaN == Frac(0, 0)
FracIsNaN(x) == x.den = 0
FracAdd(x, y) ==
    IF FracIsNaN(x) \/ FracIsNaN(y) THEN FracNaN
    ELSE Frac(x.num * y.den + y.num * x.den, x.den * y.den)

\* df[f'{col}_norm'] at row i: (x - min) / (max - min) when max > min, else 0.
NormCell(rows, col, i) ==
    IF ColMax(rows, col) > ColMin(rows, col)
    THEN IF IsNaN(rows[i][col]) THEN FracNaN
         ELSE Frac(rows[i][col] - ColMin(rows, col), ColMax(rows, col) - ColMin(rows, col))
    ELSE Frac(0, 1)

\* weights, in tenths
WeightTenths(col) ==
    CASE col = "stars_latest" -> 3
      [] col = "openrank_latest" -> 4
      [] col = "activity_latest" -> 3

\* composite_score at row i: 0, then "+= df[col] * weight" for each norm column.
RECURSIVE CompositeFrom(_, _, _, _)
CompositeFrom(rows, i, k, acc) ==
    IF k > Len(required_cols) THEN acc
    ELSE LET col == required_cols[k]
             cell == NormCell(rows, col, i)
         IN  CompositeFrom(rows, i, k + 1,
                IF col \in AvailableCols(rows)
                THEN FracAdd(acc, IF FracIsNaN(cell) THEN FracNaN
                                  ELSE Frac(cell.num * WeightTenths(col), cell.den * 10))
                ELSE acc)

NormName(col) ==
    CASE col = "stars_latest" -> "stars_latest_norm"
      [] col = "openrank_latest" -> "openrank_latest_norm"
      [] col = "activity_latest" -> "activity_latest_norm"

\* The frame returned: the norm columns and composite_score are added when at
\* least two of the required columns are there.
GrowthFrame(rows) ==
    IF Cardinality(AvailableCols(rows)) >= 2
    THEN [i \in 1..Len(rows) |->
            rows[i]
            @@ [n \in {NormName(c) : c \in AvailableCols(rows)} |->
                  NormCell(rows, CHOOSE c \in AvailableCols(rows) : NormName(c) = n, i)]
            @@ ("composite_score" :> CompositeFrom(rows, i, 1, Frac(0, 1)))]
    ELSE rows

analyze_project_growth ==
    /\ ran = "none"
    /\ ran' = "analyze_project_growth"
    /\ df' = GrowthFrame(df)
    /\ UNCHANGED <<extState, normState, yearState, mergeState, classState, mainState,
                   batchState, trendState>>

InitScore ==
    /\ ran = "none"
    /\ ExtIdle
    /\ NormalizeIdle
    /\ YearlyIdle
    /\ MergeIdle
    /\ ClassifyIdle
    /\ MainIdle
    /\ BatchIdle
    /\ TrendIdle
    /\ df \in SeqsUpTo(ScoreRows, MaxDfRows) \ {<<>>}

NextScore == analyze_project_growth

SpecScore == InitScore /\ [][NextScore]_vars

-----------------------------------------------------------------------------
(* Properties of the composite score *)

\* A fraction that is a number between 0 and 1.
InUnitInterval(x) == ~FracIsNaN(x) /\ x.den > 0 /\ 0 <= x.num /\ x.num <= x.den

\* The column is constant over the rows that have it.
IsConstant(rows, col) == ColMax(rows, col) = ColMin(rows, col)

\* The frame holds a composite score.
Scored == ran = "analyze_project_growth" /\ "composite_score" \in DOMAIN df[1]

\* C14: when the composite score is computed, every normalised value of every
\* contributing metric lies in [0,1], a metric that is constant over the set gives
\* 0 for every record, and the composite score of every record lies in [0,1].
C14_ScoresInUnitInterval ==
    Scored =>
        \A i \in 1..Len(df) :
            /\ \A c \in AvailableCols(df) :
                  /\ InUnitInterval(df[i][NormName(c)])
                  /\ IsConstant(df, c) => df[i][NormName(c)].num = 0
            /\ InUnitInterval(df[i]["composite_score"])

\* C14, for the records that have every contributing metric: their normalised
\* values and their composite score lie in [0,1]; a constant metric gives 0 for
\* every record; a record that lacks a metric which varies over the set has NaN
\* as that normalised value and as its composite score.
C14_ScoresOfCompleteRecords ==
    Scored =>
        \A i \in 1..Len(df) :
            /\ \A c \in AvailableCols(df) :
                  /\ IsConstant(df, c) => df[i][NormName(c)] = Frac(0, 1)
                  /\ ~IsConstant(df, c) /\ ~IsNaN(df[i][c]) => InUnitInterval(df[i][NormName(c)])
                  /\ ~IsConstant(df, c) /\ IsNaN(df[i][c]) => FracIsNaN(df[i][NormName(c)])
            /\ IF \E c \in AvailableCols(df) : ~IsConstant(df, c) /\ IsNaN(df[i][c])
               THEN FracIsNaN(df[i]["composite_score"])
               ELSE InUnitInterval(df[i]["composite_score"])

-----------------------------------------------------------------------------
(* 04_expand_project_analysis.py: main, the category summary *)

\* The names of the projects main is run on.
MainNames == {"org/repo", "org/vscode"}

\* The project column of the row of a full_name.
ProjectOf(full_name) ==
    CASE full_name = "org/repo" -> <<"r","e","p","o">>
      [] full_name = "org/other" -> <<"o","t","h","e","r">>
      [] full_name = "org/vscode" -> <<"v","s","c","o","d","e">>

\* The rows of the three CSV files; openrank is held in thousandths here
\* (7234 is 7.234), total_stars and stars are whole numbers.
MainCompleteRows ==
    {[full_name |-> n, total_stars |-> s, openrank_latest |-> o] :
        n \in MainNames, s \in {100, 500}, o \in {NaN, 7234}}
MainTop100Rows == {[full_name |-> n, stars |-> 900] : n \in MainNames}
MainImprovedRows == {[full_name |-> n, openrank_latest |-> o] : n \in MainNames, o \in {NaN, 7234}}

\* A cell of a summed column in thousandths.
Thousandths(col, v) == IF col = "total_stars" THEN v * 1000 ELSE v

\* The rows of one project_type.
Members(frame, type) == {i \in 1..Len(frame) : frame[i]["project_type"] = type}

\* The sum, in thousandths, of a column over a set of rows.
RECURSIVE ColumnSum(_, _, _)
ColumnSum(frame, col, at) ==
    IF at = {} THEN 0
    ELSE LET i == CHOOSE j \in at : TRUE
         IN  Thousandths(col, frame[i][col]) + ColumnSum(frame, col, at \ {i})

\* round(2) of sum / n, in hundredths: the nearest hundredth; at an exact half the
\* binary value of the float decides, so either neighbour can come out.
Round2Set(sum, n) ==
    LET floor == sum \div (10 * n)
        rem == sum % (10 * n)
    IN  IF 2 * rem < 10 * n THEN {floor}
        ELSE IF 2 * rem > 10 * n THEN {floor + 1}
        ELSE {floor, floor + 1}

\* 'mean' of a column over the rows of a type, rounded: NaN cells are skipped, and
\* the mean of no cell is NaN.
MeanSet(frame, col, type) ==
    LET at == {i \in Members(frame, type) : ~IsNaN(frame[i][col])}
    IN  IF at = {} THEN {NaN}
        ELSE Round2Set(ColumnSum(frame, col, at), Cardinality(at))

\* The keys of a summary that has a row for every category of the taxonomy.
AllTypeKeys(frame) ==
    {"Development Tools", "Programming Languages", "Container Orchestration",
     "Artificial Intelligence", "Frontend Frameworks", "Backend Frameworks",
     "Big Data / Databases", "Cloud / Infrastructure", "DevOps/CI-CD", "Utilities",
     "Docs / Websites", "Mobile Development", "Game Development", "Other"}

\* The keys of groupby('project_type'): the values that occur in the column.
TypeKeys(frame) == {frame[i]["project_type"] : i \in 1..Len(frame)}

\* The rows groupby(...).agg(...).round(2) can hold for one project_type;
\* averages are in hundredths.
SummaryRows(frame, type) ==
    {[count |-> Cardinality(Members(frame, type)), avg_openrank |-> a, avg_total_stars |-> b] :
        a \in MeanSet(frame, "openrank_latest", type),
        b \in MeanSet(frame, "total_stars", type)}

\* The frames type_analysis can be.
TypeAnalyses(frame) ==
    {ta \in [TypeKeys(frame) -> UNION {SummaryRows(frame, t) : t \in TypeKeys(frame)}] :
        \A t \in TypeKeys(frame) : ta[t] \in SummaryRows(frame, t)}

\* extended_df['project_type'] = extended_df['project'].apply(enhanced_classify_project_type)
WithProjectType(frame) ==
    [i \in 1..Len(frame) |->
        frame[i] @@ ("project_type" :>
            enhanced_classify_project_type(ProjectOf(frame[i]["full_name"])))]

main ==
    /\ ran = "none"
    /\ ran' = "main"
    /\ LET extended_df == ExtendedProjects(complete_df, top100_df, improved_df)
       IN  IF extended_df = <<>>
           THEN /\ raised' = "KeyError"
                /\ final_df' = <<>>
                /\ type_analysis' = <<>>
           ELSE /\ raised' = "none"
                /\ \E df_with_openrank \in
                        DescOrders(SelectSeq(extended_df, HasOpenrank), "openrank_latest") :
                   \E df_without_openrank \in
                        DescOrders(SelectSeq(extended_df, LAMBDA r : ~HasOpenrank(r)), "total_stars") :
                      /\ final_df' = WithProjectType(Reranked(df_with_openrank \o df_without_openrank))
                      /\ type_analysis' \in TypeAnalyses(final_df')
    /\ UNCHANGED <<extState, normState, yearState, classState, scoreState, complete_df, top100_df, improved_df,
                   batchState, trendState>>

InitMain ==
    /\ ran = "none"
    /\ ExtIdle
    /\ NormalizeIdle
    /\ YearlyIdle
    /\ ClassifyIdle
    /\ ScoreIdle
    /\ MainIdle
    /\ BatchIdle
    /\ TrendIdle
    /\ final_df = <<>>
    /\ raised = "none"
    /\ complete_df \in SeqsUpTo(MainCompleteRows, MaxRows)
    /\ top100_df \in SeqsUpTo(MainTop100Rows, MaxRows - Len(complete_df))
    /\ improved_df \in SeqsUpTo(MainImprovedRows, 1)

NextMain == main

SpecMain == InitMain /\ [][NextMain]_vars

-----------------------------------------------------------------------------
(* Properties of the category summary *)

\* The value, in thousandths, a single member has in a column.
MemberValue(col, type) ==
    LET i == CHOOSE j \in Members(final_df, type) : TRUE
    IN  IF IsNaN(final_df[i][col]) THEN NaN ELSE Thousandths(col, final_df[i][col])

\* An average of the summary, in thousandths.
AverageThousandths(a) == IF IsNaN(a) THEN NaN ELSE a * 10

\* The summary has a row exactly for the categories with a member, and count is
\* the number of members.
RowsAndCounts ==
    /\ DOMAIN type_analysis = {t \in Categories : Members(final_df, t) # {}}
    /\ \A t \in DOMAIN type_analysis :
          type_analysis[t].count = Cardinality(Members(final_df, t))

\* C15 as stated: one row per category with a member and none for the others,
\* count the number of members, and for a category with exactly one member each
\* average equal to that member's value exactly.
C15_SingleMemberExact ==
    ran = "main" /\ raised = "none" =>
        /\ RowsAndCounts
        /\ \A t \in DOMAIN type_analysis :
              Cardinality(Members(final_df, t)) = 1 =>
                  /\ AverageThousandths(type_analysis[t].avg_total_stars)
                        = MemberValue("total_stars", t)
                  /\ AverageThousandths(type_analysis[t].avg_openrank)
                        = MemberValue("openrank_latest", t)

\* C15 amended: one row per category with a member and none for the others, count
\* the number of members, and for a category with exactly one member avg_total_stars
\* equal to the member's total_stars and avg_openrank equal to the member's
\* openrank rounded to two decimals (missing when the member's is missing).
C15_SingleMemberRounded ==
    ran = "main" /\ raised = "none" =>
        /\ RowsAndCounts
        /\ \A t \in DOMAIN type_analysis :
              Cardinality(Members(final_df, t)) = 1 =>
                  /\ AverageThousandths(type_analysis[t].avg_total_stars)
                        = MemberValue("total_stars", t)
                  /\ IF IsNaN(MemberValue("openrank_latest", t))
                     THEN IsNaN(type_analysis[t].avg_openrank)
                     ELSE type_analysis[t].avg_openrank
                            \in Round2Set(MemberValue("openrank_latest", t), 1)

\* C15 witness: three projects in two categories, one of them with a single
\* member whose openrank 7.234 is summarised as 7.23.
C15_Witness ==
    /\ ran = "main"
    /\ Len(final_df) = 3
    /\ DOMAIN type_analysis = {"Development Tools", "Other"}
    /\ type_analysis["Development Tools"].count = 1
    /\ MemberValue("openrank_latest", "Development Tools") = 7234
    /\ type_analysis["Development Tools"].avg_openrank = 723
    /\ type_analysis["Other"].count = 2

-----------------------------------------------------------------------------
(* The loops over the organisations:
   01_explore_data.py collect_project_info and
   03_final_analysis.py analyze_top_projects_across_orgs *)

\* Largest number of organisation folders.
MaxOrgs == 2

\* Largest number of project folders of one organisation.
MaxOrgProjects == 2

\* analyze_top_projects_across_orgs stops after this many organisations once it
\* has this many projects.
OrgStop == 10
ProjectStop == 50

\* A file json.load cannot parse.
Unparseable == [kind |-> "invalid"]
IsUnparseable(data) == data.kind = "invalid"

GoodStars == [kind |-> "dict", items |-> <<<<K_2024_01, 100>>, <<K_2024_02, 30>>>>]
GoodActivity == [kind |-> "dict", items |-> <<<<K_2024_01, 150>>>>]

\* The project folders of the batch.
BatchDirs ==
    { ("stars.json" :> GoodStars) @@ ("activity.json" :> GoodActivity),
      ("stars.json" :> Unparseable),
      ("stars.json" :> GoodStars) @@ ("activity.json" :> Unparseable),
      ("stars.json" :> Unparseable) @@ ("activity.json" :> GoodActivity),
      ("activity.json" :> GoodActivity) }

OrgFolders == SeqsUpTo(BatchDirs, MaxOrgProjects) \ {<<>>}

\* The files of a folder that json.load parses; reading any other raises, and the
\* except clause around the read leaves the file out.
Parsed(dir) == [f \in {g \in DOMAIN dir : ~IsUnparseable(dir[g])} |-> dir[f]]

\* 01: the rows one project folder adds to projects_info.  An error while
\* stars.json is read is caught by the outer except, and nothing is appended; an
\* error while activity.json is read is caught by the inner one, and activity stays 0.
ProjectRows01(dir, id) ==
    IF "stars.json" \notin DOMAIN dir \/ IsUnparseable(dir["stars.json"]) THEN <<>>
    ELSE <<[full_name |-> id,
            stars |-> LatestStars01(dir["stars.json"]),
            activity |-> ActivityValue01(Parsed(dir))]>>

\* 01: the rows the project folders of one organisation add, in order.
RECURSIVE OrgRows01(_, _, _)
OrgRows01(projects, o, k) ==
    IF k > Len(projects) THEN <<>>
    ELSE ProjectRows01(projects[k], <<o, k>>) \o OrgRows01(projects, o, k + 1)

\* 03: project_data of one folder, appended when it is not None.
ProjectData03(dir, id) ==
    IF Cardinality(DOMAIN Results03(Parsed(dir))) + 3 > 3
    THEN <<[full_name |-> id, metrics |-> Results03(Parsed(dir))]>>
    ELSE <<>>

RECURSIVE OrgData03(_, _, _)
OrgData03(projects, o, k) ==
    IF k > Len(projects) THEN <<>>
    ELSE ProjectData03(projects[k], <<o, k>>) \o OrgData03(projects, o, k + 1)

\* One pass of "for org_idx, org_folder in enumerate(org_folders)" of
\* collect_project_info.
collect_org_folder ==
    /\ ran \in {"none", "collect_project_info"}
    /\ org_idx < Len(org_folders)
    /\ ran' = "collect_project_info"
    /\ org_idx' = org_idx + 1
    /\ projects_info' = projects_info \o OrgRows01(org_folders[org_idx + 1], org_idx + 1, 1)
    /\ UNCHANGED <<extState, files, project_info, results, returned, cumulative_values,
                   org_folders, org_count, all_projects_data,
                   yearState, mergeState, classState, scoreState, mainState, trendState>>

\* One pass of "for org in base_dir.iterdir()" of analyze_top_projects_across_orgs,
\* for an organisation of the list; the test at its end breaks out of the loop.
analyze_org ==
    /\ ran \in {"none", "analyze_top_projects_across_orgs"}
    /\ org_idx < Len(org_folders)
    /\ ran' = "analyze_top_projects_across_orgs"
    /\ all_projects_data' =
          all_projects_data \o OrgData03(org_folders[org_idx + 1], org_idx + 1, 1)
    /\ org_count' = org_count + 1
    /\ org_idx' =
          IF org_count' >= OrgStop /\ Len(all_projects_data') >= ProjectStop
          THEN Len(org_folders)
          ELSE org_idx + 1
    /\ UNCHANGED <<extState, normState, org_folders,
                   yearState, mergeState, classState, scoreState, mainState, trendState>>

-----------------------------------------------------------------------------
(* github_popular_projects_analyzer.py: calculate_monthly_popular_trends *)

\* Largest number of monthly files.
MaxMonths == 2

\* The thresholds of analyze_popular_projects.
HighStars == 1000
ModerateStars == 2000
LongDescription == 20
ModerateConditions == 3
ModerateMinimum == 10
TopProjects == 10

\* JSON values of a stars_count field.
IntValue(n) == [t |-> "int", v |-> n]
StrValue(chars) == [t |-> "str", s |-> chars]
NoneValue == [t |-> "None"]
BoolValue(b) == [t |-> "bool", b |-> b]
ListValue == [t |-> "list"]

\* A JSON number with a fraction, in tenths, and the three literals NaN, Infinity
\* and -Infinity, which json.load reads as floats.
FloatValue(tenths) == [t |-> "float", special |-> "none", v |-> tenths]
FloatNaN == [t |-> "float", special |-> "nan", v |-> 0]
FloatInf == [t |-> "float", special |-> "inf", v |-> 0]

\* JSON values of a language field: a string, or a number.
Text(string) == [t |-> "str", s |-> string]

\* bool(value)
Truthy(value) ==
    IF value.t = "str" THEN value.s # ""
    ELSE IF value.t = "int" THEN value.v # 0
    ELSE FALSE

DigitChars == {"0", "1", "2", "3", "4", "5", "6", "7", "8", "9"}

\* The superscript two, held as one character: isdigit() is True for it, and
\* int() raises ValueError.
SuperscriptTwo == "sup2"

\* s.isdigit()
IsDigitStr(chars) ==
    chars # <<>> /\ \A i \in 1..Len(chars) : chars[i] \in DigitChars \cup {SuperscriptTwo}

\* int(s) raises ValueError for a string isdigit() accepts.
IntRaises(chars) == \E i \in 1..Len(chars) : chars[i] \notin DigitChars

\* int(s) of a string of digits
RECURSIVE IntOfDigits(_, _)
IntOfDigits(chars, acc) ==
    IF chars = <<>> THEN acc
    ELSE IntOfDigits(Tail(chars), acc * 10 + Digit(Head(chars)))

\* int(x) of a float: the fraction is cut off, towards 0.
Truncated(tenths) == IF tenths >= 0 THEN tenths \div 10 ELSE -((-tenths) \div 10)

\* The exception get_stars_count ends with, "none" when it returns: int() of a
\* float that is NaN or infinite raises, outside the try of the string branch.
GetStarsRaises(stars) ==
    IF stars.t = "float" /\ stars.special = "nan" THEN "ValueError"
    ELSE IF stars.t = "float" /\ stars.special = "inf" THEN "OverflowError"
    ELSE "none"

\* get_stars_count, when it returns
get_stars_count(stars) ==
    IF stars.t = "None" THEN 0
    ELSE IF stars.t = "str"
         THEN LET stripped == StrReplace(stars.s, <<",">>, <<>>)
              IN  IF IsDigitStr(stripped) /\ ~IntRaises(stripped)
                  THEN IntOfDigits(stripped, 0)
                  ELSE 0
         ELSE IF stars.t = "int" THEN stars.v
         ELSE IF stars.t = "bool" THEN (IF stars.b THEN 1 ELSE 0)
         ELSE IF stars.t = "float" THEN Truncated(stars.v)
         ELSE 0

\* self.get_stars_count(p.get('stars_count', 0))
StarsOf(p) == get_stars_count(RecGet(p, "stars_count", IntValue(0)))

\* The projects of a monthly file: description is held by the length of
\* description.strip(), topics by their number.  No language of these has white
\* space in it.
Flask ==
    [stars_count |-> IntValue(2500), description |-> 30, topics |-> 1, language |-> Text("Python")]
Commas ==
    [stars_count |-> StrValue(<<"1", ",", "5", "0", "0">>), description |-> 0, topics |-> 0,
     language |-> Text("null")]
NoStars == [description |-> 30, topics |-> 1, language |-> Text("Go")]
Small ==
    [stars_count |-> IntValue(500), description |-> 30, topics |-> 0, language |-> Text("Python")]
NumberLanguage ==
    [stars_count |-> IntValue(3000), description |-> 30, topics |-> 1, language |-> IntValue(123)]

\* The contents of a monthly file: a list of projects, or text json.load rejects.
MonthContents ==
    {[kind |-> "list", projects |-> ps] :
        ps \in {<<>>, <<Flask, Commas>>, <<NoStars, Small>>, <<Commas>>,
                <<Flask, NumberLanguage, Small>>, <<NumberLanguage>>}}
    \cup {Unparseable}

MonthNames == <<"2025-01", "2025-02", "2025-03", "2025-04">>

\* The nearest whole numbers to num / den; at an exact half the binary value of
\* the float decides.
RoundSet(num, den) ==
    LET floor == num \div den
        rem == num % den
    IN  IF 2 * rem < den THEN {floor}
        ELSE IF 2 * rem > den THEN {floor + 1}
        ELSE {floor, floor + 1}

\* language.strip() of the test has_language raises AttributeError when language
\* is a number other than 0: "language and language != 'null'" lets it through.
LanguageRaises(p) == p.language.t # "str" /\ Truthy(p.language)

\* The conditions counted as if the stars alone decided.
StarsConditionOnly(p) == IF StarsOf(p) >= ModerateStars THEN ModerateConditions ELSE 0

\* The number of the four conditions a project meets.
ConditionsMet(p) ==
    (IF StarsOf(p) >= ModerateStars THEN 1 ELSE 0)
    + (IF p.description > LongDescription THEN 1 ELSE 0)
    + (IF p.topics >= 1 THEN 1 ELSE 0)
    + (IF Truthy(p.language) /\ p.language # Text("null") THEN 1 ELSE 0)

\* sorted(month_data, key=stars, reverse=True): stable.
RECURSIVE InsertByStarsOf(_, _)
InsertByStarsOf(sorted, p) ==
    IF sorted = <<>> THEN <<p>>
    ELSE IF StarsOf(Head(sorted)) >= StarsOf(p)
         THEN <<Head(sorted)>> \o InsertByStarsOf(Tail(sorted), p)
         ELSE <<p>> \o sorted
RECURSIVE SortByStarsOf(_, _)
SortByStarsOf(sorted, rest) ==
    IF rest = <<>> THEN sorted
    ELSE SortByStarsOf(InsertByStarsOf(sorted, Head(rest)), Tail(rest))

\* What analyze_popular_projects returns for no data: no key popular_projects.
EmptyAnalysis ==
    [total_projects |-> 0, high_star_projects |-> 0, high_growth_projects |-> 0,
     comprehensive_projects |-> 0, total_stars |-> 0, avg_stars |-> 0, top_projects |-> <<>>]

\* The dicts analyze_popular_projects can return; avg_stars is in tenths.
analyze_popular_projects(month_data) ==
    IF month_data = <<>> THEN {EmptyAnalysis}
    ELSE LET total_stars == SumSeq([i \in 1..Len(month_data) |-> StarsOf(month_data[i])])
             high_star_projects == SelectSeq(month_data, LAMBDA p : StarsOf(p) >= HighStars)
             moderate_projects ==
                 SelectSeq(month_data, LAMBDA p : ConditionsMet(p) >= ModerateConditions)
             popular_projects ==
                 IF Len(moderate_projects) < ModerateMinimum
                 THEN SelectSeq(month_data, LAMBDA p : StarsOf(p) >= HighStars)
                 ELSE moderate_projects
             sorted == SortByStarsOf(<<>>, month_data)
         IN  {[total_projects |-> Len(month_data),
               high_star_projects |-> Len(high_star_projects),
               popular_projects |-> Len(popular_projects),
               total_stars |-> total_stars,
               avg_stars |-> a,
               top_projects |->
                   SubSeq(sorted, 1, IF Len(sorted) < TopProjects THEN Len(sorted) ELSE TopProjects)] :
                a \in RoundSet(total_stars * 10, Len(month_data))}

\* The loop "for project in month_data" that fills language_stats.
RECURSIVE CollectLanguages(_, _)
CollectLanguages(language_lists, month_data) ==
    IF month_data = <<>> THEN language_lists
    ELSE LET project == Head(month_data)
             lang == project.language
         IN  CollectLanguages(
                IF Truthy(lang) /\ lang # Text("null")
                THEN DictSet(language_lists, lang,
                        Append(IF DictHas(language_lists, lang) THEN DictGet(language_lists, lang) ELSE <<>>,
                               StarsOf(project)))
                ELSE language_lists,
                Tail(month_data))

\* analyze_popular_projects raises for this content: json.load or one of the
\* projects of the list.
AnalysisRaises(content) ==
    \/ IsUnparseable(content)
    \/ \E i \in 1..Len(content.projects) :
          \/ GetStarsRaises(RecGet(content.projects[i], "stars_count", IntValue(0))) # "none"
          \/ LanguageRaises(content.projects[i])

\* The try block of the loop runs to its end for this content: the analysis is
\* made and has the key popular_projects.
MonthSucceeds(content) == ~AnalysisRaises(content) /\ content.projects # <<>>

\* One pass of "for file_path in monthly_files".  An error is caught by the except
\* clause, and the loop goes on: json.load raising leaves all three dicts as they
\* were, and so does analyze_popular_projects raising; an empty list gets its
\* analysis stored and then raises KeyError at analysis["popular_projects"].
analyze_month_file ==
    /\ ran \in {"none", "calculate_monthly_popular_trends"}
    /\ month_idx < Len(monthly_files)
    /\ ran' = "calculate_monthly_popular_trends"
    /\ month_idx' = month_idx + 1
    /\ LET month == monthly_files[month_idx + 1][1]
           content == monthly_files[month_idx + 1][2]
       IN  IF AnalysisRaises(content)
           THEN UNCHANGED <<monthly_trends, monthly_analysis, language_stats>>
           ELSE \E analysis \in analyze_popular_projects(content.projects) :
                   /\ monthly_analysis' = DictSet(monthly_analysis, month, analysis)
                   /\ IF MonthSucceeds(content)
                      THEN /\ monthly_trends' =
                                 DictSet(monthly_trends, month, analysis.popular_projects)
                           /\ language_stats' = CollectLanguages(language_stats, content.projects)
                      ELSE UNCHANGED <<monthly_trends, language_stats>>
    /\ UNCHANGED <<extState, normState, monthly_files,
                   yearState, mergeState, classState, scoreState, mainState, batchState>>

-----------------------------------------------------------------------------
(* The batch runs *)

InitBatch ==
    /\ ran = "none"
    /\ ExtIdle
    /\ NormalizeIdle
    /\ YearlyIdle
    /\ MergeIdle
    /\ ClassifyIdle
    /\ ScoreIdle
    /\ MainIdle
    /\ org_idx = 0 /\ org_count = 0 /\ all_projects_data = <<>>
    /\ month_idx = 0 /\ monthly_trends = <<>> /\ monthly_analysis = <<>>
    /\ language_stats = <<>>
    /\ \/ /\ org_folders \in SeqsUpTo(OrgFolders, MaxOrgs)
          /\ monthly_files = <<>>
       \/ /\ org_folders = <<>>
          /\ \E n \in 0..MaxMonths : \E c \in [1..n -> MonthContents] :
                monthly_files = [i \in 1..n |-> <<MonthNames[i], c[i]>>]

NextBatch ==
    \/ collect_org_folder
    \/ analyze_org
    \/ analyze_month_file

SpecBatch == InitBatch /\ [][NextBatch]_vars

-----------------------------------------------------------------------------
(* Properties of the batch runs *)

\* The project folder k of organisation o.
FolderOf(o, k) == org_folders[o][k]

\* The organisations and project folders the loop has gone through.
Processed == {<<o, k>> \in (1..org_idx) \X (1..MaxOrgProjects + 1) : k <= Len(org_folders[o])}

\* The rows of a list that carry this full_name.
RowsNamed(rows, id) == SelectSeq(rows, LAMBDA r : r.full_name = id)

\* 01: every folder whose stars.json parses has its one row, with the activity of
\* its own activity.json, whatever the other folders hold.
Isolated01 ==
    ran = "collect_project_info" =>
        \A id \in Processed :
            LET dir == FolderOf(id[1], id[2])
            IN  ("stars.json" \in DOMAIN dir /\ ~IsUnparseable(dir["stars.json"])) =>
                    RowsNamed(projects_info, id) =
                        <<[full_name |-> id,
                           stars |-> LatestStars01(dir["stars.json"]),
                           activity |->
                               IF "activity.json" \in DOMAIN dir
                                  /\ ~IsUnparseable(dir["activity.json"])
                               THEN ActivityValue01(dir) ELSE 0]>>

\* 03: every folder with a metric file that parses has its one record, made of the
\* files that parse.
Isolated03 ==
    ran = "analyze_top_projects_across_orgs" =>
        \A id \in Processed :
            LET dir == FolderOf(id[1], id[2])
            IN  (\E f \in DOMAIN dir : ~IsUnparseable(dir[f])) =>
                    RowsNamed(all_projects_data, id) =
                        <<[full_name |-> id, metrics |-> Results03(Parsed(dir))]>>

\* The monthly files the loop has gone through.
MonthsDone == 1..month_idx

\* Analyzer: a project of a monthly file that is itself well formed is among the
\* top projects of its month.
IsolatedProjects ==
    \A i \in MonthsDone :
        LET month == monthly_files[i][1]
            content == monthly_files[i][2]
        IN  ~IsUnparseable(content) =>
                \A j \in 1..Len(content.projects) :
                    ~LanguageRaises(content.projects[j]) =>
                        /\ DictHas(monthly_analysis, month)
                        /\ \E t \in 1..Len(DictGet(monthly_analysis, month).top_projects) :
                              DictGet(monthly_analysis, month).top_projects[t]
                                  = content.projects[j]

\* C18: a failure for one project never aborts the batch: every other project of
\* the run is processed and appears in the output, and only the record of the
\* failing project is affected.
C18_FailureIsolatedToProject == Isolated01 /\ Isolated03 /\ IsolatedProjects

\* C18, the two loops over project folders: a folder with a file that does not
\* parse costs no other folder its record.
C18_FoldersIsolated == Isolated01 /\ Isolated03

\* C18, the loop over monthly files: a month whose try block runs to its end has
\* its analysis and its count, whatever the other files hold.
C18_MonthsIsolated ==
    \A i \in MonthsDone :
        MonthSucceeds(monthly_files[i][2]) =>
            /\ DictHas(monthly_analysis, monthly_files[i][1])
            /\ DictGet(monthly_analysis, monthly_files[i][1])
                  \in analyze_popular_projects(monthly_files[i][2].projects)
            /\ DictHas(monthly_trends, monthly_files[i][1])

-----------------------------------------------------------------------------
(* 04_expand_project_analysis.py: load_and_merge_data, the order of final_df *)

\* The full_name of the row at each place of complete_total_stars_ranking.csv.
OrderNames == <<"org/a", "org/b", "org/c", "org/d">>

\* The cells of a row of the complete file: openrank in tenths, never below 0.
OrderCells == [total_stars : {100, 500}, openrank_latest : {NaN, 0, 31, 72}]

\* The one row top_100_projects.csv may hold beside the complete file.
OrderTop100 == {<<>>} \cup {<<[full_name |-> "org/top", stars |-> s]>> : s \in {100, 900}}

InitOrder ==
    /\ ran = "none"
    /\ ExtIdle
    /\ NormalizeIdle
    /\ YearlyIdle
    /\ ClassifyIdle
    /\ ScoreIdle
    /\ MainIdle
    /\ BatchIdle
    /\ TrendIdle
    /\ final_df = <<>>
    /\ raised = "none"
    /\ \E k \in 0..MaxRows : \E cells \in [1..k -> OrderCells] :
          complete_df = [i \in 1..k |->
                            [full_name |-> OrderNames[i],
                             total_stars |-> cells[i].total_stars,
                             openrank_latest |-> cells[i].openrank_latest]]
    /\ top100_df \in OrderTop100
    /\ improved_df = <<>>

NextOrder == load_and_merge_data

SpecOrder == InitOrder /\ [][NextOrder]_vars

\* load_and_merge_data has returned a frame.
Merged == ran = "load_and_merge_data" /\ raised = "none"

\* C21: in final_df the rows that hold an openrank value are in non-increasing
\* order of openrank, and the rows of the second group (no openrank above 0, the
\* rows without a value among them) are in non-increasing order of total_stars.
C21_GroupsInDescendingOrder ==
    Merged =>
        \A i, j \in 1..Len(final_df) :
            i < j =>
                /\ (~IsNaN(final_df[i].openrank_latest) /\ ~IsNaN(final_df[j].openrank_latest))
                      => final_df[i].openrank_latest >= final_df[j].openrank_latest
                /\ (~HasOpenrank(final_df[i]) /\ ~HasOpenrank(final_df[j]))
                      => final_df[i].total_stars >= final_df[j].total_stars

\* C21 witness: a frame with two different openrank values above 0, given in
\* ascending order, and two rows of the second group with different stars, given in
\* ascending order too.
C21_Witness ==
    /\ Merged
    /\ \E i, j \in 1..Len(complete_df) :
          /\ i < j
          /\ complete_df[i].openrank_latest = 31
          /\ complete_df[j].openrank_latest = 72
    /\ \E i \in 1..Len(complete_df) :
          /\ IsNaN(complete_df[i].openrank_latest)
          /\ complete_df[i].total_stars = 100
          /\ top100_df # <<>>
          /\ top100_df[1].stars = 900
    /\ Len(final_df) = 4

\* The place of a row of final_df in extended_df, the frame that is sorted.
InputPlace(row) ==
    LET extended_df == ExtendedProjects(complete_df, top100_df, improved_df)
    IN  CHOOSE k \in 1..Len(extended_df) : extended_df[k].full_name = row.full_name

\* The column a row of final_df was sorted by.
SortKey(row) == IF HasOpenrank(row) THEN row.openrank_latest ELSE row.total_stars

\* 04: two rows of one group of final_df with equal values of the sorted column
\* are in the order extended_df had them in.
StableMerge ==
    Merged =>
        \A i, j \in 1..Len(final_df) :
            (/\ i < j
             /\ HasOpenrank(final_df[i]) = HasOpenrank(final_df[j])
             /\ SortKey(final_df[i]) = SortKey(final_df[j]))
                => InputPlace(final_df[i]) < InputPlace(final_df[j])

\* The place of a dict of top_projects in unique_projects.values(), the list that
\* is sorted.
PlaceInUnique(project) ==
    CHOOSE k \in 1..Len(unique_projects) : unique_projects[k][2].oid = project.oid

\* Collector: two dicts of top_projects with equal stars are in the order
\* unique_projects had them in.
StableYearly ==
    ran = "generate_yearly_report" =>
        \A i, j \in 1..Len(top_projects) :
            (i < j /\ StarsCount(top_projects[i]) = StarsCount(top_projects[j]))
                => PlaceInUnique(top_projects[i]) < PlaceInUnique(top_projects[j])

\* C22: ranking is stable: two records with equal values of the ranking metric are
\* in the ranked output in the order the input had them in.
C22_StableRanking == StableMerge /\ StableYearly

\* C22, the collector alone: sorted() keeps the order of dicts with equal stars.
C22_YearlySortStable == StableYearly

\* C23: the pass leaves the records it is given as they were: the dicts of
\* monthly_data, language_data and hot_projects have the same fields and values
\* after _generate_yearly_report as before it.
C23_InputsNotModified ==
    [][/\ monthly_data' = monthly_data
       /\ language_data' = language_data
       /\ hot_projects' = hot_projects]_vars

\* The dict without its rank.
WithoutRank(project) == [f \in DOMAIN project \ {"rank"} |-> project[f]]
UnrankedList(projects) == [i \in 1..Len(projects) |-> WithoutRank(projects[i])]
UnrankedLists(d) == [i \in 1..Len(d) |-> <<d[i][1], UnrankedList(d[i][2])>>]

\* C23, what the pass does leave alone: every field but rank of every dict given.
C23_OnlyRankWritten ==
    [][/\ UnrankedLists(monthly_data') = UnrankedLists(monthly_data)
       /\ UnrankedLists(language_data') = UnrankedLists(language_data)
       /\ UnrankedList(hot_projects') = UnrankedList(hot_projects)]_vars

-----------------------------------------------------------------------------
(* get_stars_count, and the same parsing in generate_top_projects_chart *)

\* Longest string given as a stars value.
MaxStarsLen == 3

StarsAlphabet == {"0", "5", ",", "-", SuperscriptTwo}

\* "12,345"
TwelveThousand == <<"1", "2", ",", "3", "4", "5">>

\* The values of a stars_count field.
StarsValues ==
    {StrValue(chars) : chars \in SeqsUpTo(StarsAlphabet, MaxStarsLen) \cup {TwelveThousand}}
    \cup {IntValue(n) : n \in {-3, 0, 7}}
    \cup {FloatValue(tenths) : tenths \in {15, -15}}
    \cup {FloatNaN, FloatInf, NoneValue, ListValue, BoolValue(TRUE)}

\* The 'stars' generate_top_projects_chart stores for a stars_count of monthly
\* data: a string is parsed as get_stars_count parses it, with no try around
\* int(), and every other value is stored as it is.
ChartStars(stars) ==
    IF stars.t = "str"
    THEN LET stripped == StrReplace(stars.s, <<",">>, <<>>)
         IN  IF ~IsDigitStr(stripped) THEN [raised |-> "none", value |-> IntValue(0)]
             ELSE IF IntRaises(stripped) THEN [raised |-> "ValueError", value |-> NoneValue]
             ELSE [raised |-> "none", value |-> IntValue(IntOfDigits(stripped, 0))]
    ELSE [raised |-> "none", value |-> stars]

\* One call of get_stars_count, and the chart's parsing of the same value.
parse_stars ==
    /\ ran = "none"
    /\ ran' = "get_stars_count"
    /\ stars_out' =
          IF GetStarsRaises(stars_arg) # "none"
          THEN [raised |-> GetStarsRaises(stars_arg), value |-> 0]
          ELSE [raised |-> "none", value |-> get_stars_count(stars_arg)]
    /\ stars_chart' = ChartStars(stars_arg)
    /\ UNCHANGED <<stars_arg, collectState, chartState, normState, yearState, mergeState, classState,
                   scoreState, mainState, batchState, trendState>>

InitParse ==
    /\ ran = "none"
    /\ NormalizeIdle
    /\ YearlyIdle
    /\ MergeIdle
    /\ ClassifyIdle
    /\ ScoreIdle
    /\ MainIdle
    /\ BatchIdle
    /\ TrendIdle
    /\ CollectIdle
    /\ ChartIdle
    /\ stars_arg \in StarsValues
    /\ stars_out = <<>>
    /\ stars_chart = <<>>

NextParse == parse_stars

SpecParse == InitParse /\ [][NextParse]_vars

\* The integer the digits of a string denote, its commas passed over.
RECURSIVE Denoted(_, _)
Denoted(chars, acc) ==
    IF chars = <<>> THEN acc
    ELSE IF Head(chars) = "," THEN Denoted(Tail(chars), acc)
    ELSE Denoted(Tail(chars), 10 * acc + Digit(Head(chars)))

\* A string of digits and commas with a digit in it.
IsCommaFormatted(chars) ==
    /\ \A i \in 1..Len(chars) : chars[i] \in DigitChars \cup {","}
    /\ \E i \in 1..Len(chars) : chars[i] \in DigitChars

Parsed24 == ran = "get_stars_count"

\* get_stars_count gives the integer a comma-formatted string denotes.
CommaStringsParsed ==
    (Parsed24 /\ stars_arg.t = "str" /\ IsCommaFormatted(stars_arg.s)) =>
        /\ stars_out.raised = "none"
        /\ stars_out.value = Denoted(stars_arg.s, 0)

\* get_stars_count gives an integer not below 0 for a string, null, or a value of
\* a type it does not support.
NonNegativeForOthers ==
    (Parsed24 /\ stars_arg.t \in {"str", "None", "list"}) =>
        /\ stars_out.raised = "none"
        /\ stars_out.value >= 0

\* C24: get_stars_count gives the integer a comma-formatted string denotes, raises
\* for no input of any type, and gives an integer not below 0 for every string,
\* null and value of an unsupported type.
C24_ToleratesEveryInput ==
    /\ CommaStringsParsed
    /\ NonNegativeForOthers
    /\ Parsed24 => stars_out.raised = "none"

\* C24, without the floats: a string, null or value of an unsupported type never
\* raises in get_stars_count and gives the integer claimed.
C24_StringsAndNullTolerated == CommaStringsParsed /\ NonNegativeForOthers

\* C24, the chart: for a comma-formatted string it stores what get_stars_count
\* gives.
C24_ChartAgreesOnCommaStrings ==
    (Parsed24 /\ stars_arg.t = "str" /\ IsCommaFormatted(stars_arg.s)) =>
        stars_chart = [raised |-> "none", value |-> IntValue(stars_out.value)]

-----------------------------------------------------------------------------
(* github_2025_yearly_collector.py: collect_yearly_trends *)

\* Number of languages of target_languages the run goes through.
MaxLanguages == 1

\* self.months_2025 and self.target_languages, cut to the bounds.
months_2025 == SubSeq(MonthNames, 1, MaxMonths)
target_languages == SubSeq(<<"python", "javascript", "typescript">>, 1, MaxLanguages)

\* The files of output_dir.
MonthFile(month) == <<"monthly_trends", month>>
LanguageFile(language) == <<"language", language>>
HotFile == <<"hot_projects", "2025">>
ReportFile == <<"github_2025_yearly_report", "json">>

\* How one request ends: session.get raises; a status other than 200; a 200 with no
\* items; a 200 with items; a 200 whose body or items cannot be read (response.json()
\* or item[...] raises).
Outcomes == {"exception", "status", "empty", "items", "malformed"}

\* How one write of a file ends: done; open() raises and there is no file; json.dump
\* raises and leaves a cut-off file.
WriteOutcomes == {"ok", "no_file", "partial"}

\* The requests one call of a search function issues, with a second try after a
\* failure.
RequestsWithRetry(outcome, what) ==
    IF outcome \in {"exception", "status"} THEN <<what, what>> ELSE <<what>>

\* The requests one call of a search function issues: the one session.get.
RequestsFor(outcome, what) == <<what>>

\* self.stats after the try block of a search function.
AfterRequest(st, outcome) ==
    IF outcome \in {"exception", "status"}
    THEN [st EXCEPT !.failed_requests = @ + 1]
    ELSE IF outcome = "malformed"
         THEN [st EXCEPT !.successful_requests = @ + 1, !.failed_requests = @ + 1]
         ELSE [st EXCEPT !.successful_requests = @ + 1]

\* What the search functions return: the dicts built from the items, each a new
\* object.
MonthItems(month, k) ==
    <<[month |-> month, full_name |-> "org/repo", stars_count |-> 500, oid |-> k]>>
LanguageItems(language, k) ==
    <<[language |-> language, full_name |-> "org/repo", stars_count |-> 900, oid |-> 10 + k]>>
HotItems == <<[rank |-> 1, full_name |-> "org/other", stars_count |-> 500, oid |-> 21]>>

\* json.dump of a list of dicts, and json.load of it: the file holds the fields,
\* the loaded dicts are new objects.
Dumped(projects) ==
    [kind |-> "list",
     projects |-> [i \in 1..Len(projects) |->
                     [f \in DOMAIN projects[i] \ {"oid"} |-> projects[i][f]]]]
Loaded(content, k) ==
    [i \in 1..Len(content.projects) |-> content.projects[i] @@ ("oid" :> 30 + k)]

\* A monthly file left by an earlier run.
OldMonthFile == [kind |-> "list", projects |-> <<[full_name |-> "org/repo", openrank |-> 72]>>]

\* The file after a write that ended this way.
AfterWrite(d, filename, content, w) ==
    IF w = "ok" THEN DictSet(d, filename, content)
    ELSE IF w = "partial" THEN DictSet(d, filename, Unparseable)
    ELSE d

\* os.path.exists(filename), always False.
NeverExists(filename) == FALSE

\* os.path.exists(filename)
Exists(filename) == DictHas(disk, filename)

\* The call that follows _collect_monthly_data.
AfterMonths(pos) == IF pos < Len(months_2025) THEN "monthly" ELSE "languages"
AfterLanguages(pos) == IF pos < Len(target_languages) THEN "languages" ELSE "hot"

\* One pass of "for month in self.months_2025".  The write of the monthly file is
\* outside every try: when it raises, collect_yearly_trends ends with the exception.
collect_month ==
    /\ phase = "monthly"
    /\ month_pos < Len(months_2025)
    /\ ran' = "collect_yearly_trends"
    /\ month_pos' = month_pos + 1
    /\ LET month == months_2025[month_pos + 1]
           filename == MonthFile(month)
       IN  IF Exists(filename)
           THEN /\ IF IsUnparseable(DictGet(disk, filename))
                   THEN UNCHANGED <<monthly_data, stats>>
                   ELSE /\ monthly_data' =
                              DictSet(monthly_data, month,
                                      Loaded(DictGet(disk, filename), month_pos + 1))
                        /\ stats' = [stats EXCEPT !.months_covered = @ \cup {month}]
                /\ phase' = AfterMonths(month_pos')
                /\ UNCHANGED <<disk, requests, writes>>
           ELSE \E outcome \in Outcomes :
                   /\ requests' = requests \o RequestsFor(outcome, <<"month", month>>)
                   /\ IF outcome # "items"
                      THEN /\ stats' = AfterRequest(stats, outcome)
                           /\ phase' = AfterMonths(month_pos')
                           /\ UNCHANGED <<monthly_data, disk, writes>>
                      ELSE \E w \in WriteOutcomes :
                              /\ monthly_data' =
                                    DictSet(monthly_data, month, MonthItems(month, month_pos + 1))
                              /\ stats' = [AfterRequest(stats, outcome)
                                              EXCEPT !.months_covered = @ \cup {month}]
                              /\ writes' = Append(writes, <<filename, w>>)
                              /\ disk' = AfterWrite(disk, filename,
                                                    Dumped(MonthItems(month, month_pos + 1)), w)
                              /\ phase' = IF w = "ok" THEN AfterMonths(month_pos') ELSE "aborted"
    /\ UNCHANGED <<lang_pos, language_data, hot_projects, unique_projects, top_projects,
                   parseState, chartState, normState, mergeState, classState, scoreState,
                   mainState, batchState, trendState>>

\* One pass of "for language in self.target_languages".  The write is inside the
\* try, whose except clause counts a failed request.
collect_language ==
    /\ phase = "languages"
    /\ lang_pos < Len(target_languages)
    /\ ran' = "collect_yearly_trends"
    /\ lang_pos' = lang_pos + 1
    /\ phase' = AfterLanguages(lang_pos')
    /\ LET language == target_languages[lang_pos + 1]
           filename == LanguageFile(language)
       IN  \E outcome \in Outcomes :
              /\ requests' = requests \o RequestsFor(outcome, <<"language", language>>)
              /\ IF outcome # "items"
                 THEN /\ stats' = AfterRequest(stats, outcome)
                      /\ UNCHANGED <<language_data, disk, writes>>
                 ELSE \E w \in WriteOutcomes :
                         LET language_projects == LanguageItems(language, lang_pos + 1)
                             counted ==
                                 [AfterRequest(stats, outcome)
                                     EXCEPT !.languages_covered = @ \cup {language},
                                            !.total_projects = @ + Len(language_projects)]
                         IN  /\ language_data' = DictSet(language_data, language, language_projects)
                             /\ writes' = Append(writes, <<filename, w>>)
                             /\ disk' = AfterWrite(disk, filename, Dumped(language_projects), w)
                             /\ stats' = IF w = "ok" THEN counted
                                         ELSE [counted EXCEPT !.failed_requests = @ + 1]
    /\ UNCHANGED <<month_pos, monthly_data, hot_projects, unique_projects, top_projects,
                   parseState, chartState, normState, mergeState, classState, scoreState,
                   mainState, batchState, trendState>>

\* _collect_hot_projects
collect_hot_projects ==
    /\ phase = "hot"
    /\ ran' = "collect_yearly_trends"
    /\ phase' = "report"
    /\ \E outcome \in Outcomes :
          /\ requests' = requests \o RequestsFor(outcome, <<"hot", "2025">>)
          /\ IF outcome # "items"
             THEN /\ stats' = AfterRequest(stats, outcome)
                  /\ hot_projects' = <<>>
                  /\ UNCHANGED <<disk, writes>>
             ELSE \E w \in WriteOutcomes :
                     LET counted == [AfterRequest(stats, outcome)
                                        EXCEPT !.total_projects = @ + Len(HotItems)]
                     IN  /\ writes' = Append(writes, <<HotFile, w>>)
                         /\ disk' = AfterWrite(disk, HotFile, Dumped(HotItems), w)
                         /\ hot_projects' = IF w = "ok" THEN HotItems ELSE <<>>
                         /\ stats' = IF w = "ok" THEN counted
                                     ELSE [counted EXCEPT !.failed_requests = @ + 1]
    /\ UNCHANGED <<month_pos, lang_pos, monthly_data, language_data, unique_projects,
                   top_projects, parseState, chartState, normState, mergeState, classState,
                   scoreState, mainState, batchState, trendState>>

\* The call of _generate_yearly_report that ends collect_yearly_trends; the report
\* file is written outside every try.
generate_report ==
    /\ phase = "report"
    /\ ran' = "collect_yearly_trends"
    /\ YearlyReport
    /\ \E w \in WriteOutcomes :
          /\ writes' = Append(writes, <<ReportFile, w>>)
          /\ disk' = AfterWrite(disk, ReportFile, [kind |-> "report"], w)
          /\ phase' = IF w = "ok" THEN "done" ELSE "aborted"
    /\ UNCHANGED <<month_pos, lang_pos, requests, stats,
                   parseState, chartState, normState, mergeState, classState, scoreState,
                   mainState, batchState, trendState>>

\* self.stats of a new GitHub2025DataCollector
NewStats ==
    [total_projects |-> 0, successful_requests |-> 0, failed_requests |-> 0,
     languages_covered |-> {}, months_covered |-> {}]

\* What output_dir may hold of each month before the run: nothing, a file of an
\* earlier run, or a file that cannot be parsed.
RECURSIVE DisksOf(_)
DisksOf(k) ==
    IF k = 0 THEN {<<>>}
    ELSE LET filename == MonthFile(months_2025[k])
         IN  UNION {{d, Append(d, <<filename, OldMonthFile>>), Append(d, <<filename, Unparseable>>)} :
                       d \in DisksOf(k - 1)}

InitCollect ==
    /\ ran = "none"
    /\ NormalizeIdle
    /\ MergeIdle
    /\ ClassifyIdle
    /\ ScoreIdle
    /\ MainIdle
    /\ BatchIdle
    /\ TrendIdle
    /\ ParseIdle
    /\ ChartIdle
    /\ YearlyIdle
    /\ phase = "monthly"
    /\ month_pos = 0
    /\ lang_pos = 0
    /\ requests = <<>>
    /\ writes = <<>>
    /\ stats = NewStats
    /\ disk \in DisksOf(Len(months_2025))

NextCollect ==
    \/ collect_month
    \/ collect_language
    \/ collect_hot_projects
    \/ generate_report

SpecCollect == InitCollect /\ [][NextCollect]_vars

\* The run goes on while it has a collecting call to make: nothing but its own
\* sleeps and the time limit of a request holds it up.
SpecCollectLive ==
    /\ SpecCollect
    /\ WF_vars(collect_month)
    /\ WF_vars(collect_language)
    /\ WF_vars(collect_hot_projects)

-----------------------------------------------------------------------------
(* Properties of the collector's run *)

\* No request is in the list twice.
RequestedOnce ==
    \A i, j \in 1..Len(requests) : requests[i] = requests[j] => i = j

\* One request at most for each month, each language and the hot projects.
RequestsBounded ==
    /\ \A i \in 1..Len(requests) :
          \/ requests[i][1] = "month" /\ \E k \in 1..Len(months_2025) : requests[i][2] = months_2025[k]
          \/ requests[i][1] = "language"
                /\ \E k \in 1..Len(target_languages) : requests[i][2] = target_languages[k]
          \/ requests[i] = <<"hot", "2025">>
    /\ Len(requests) <= Len(months_2025) + Len(target_languages) + 1

\* The write of a monthly file has raised.
MonthWriteFailed ==
    \E i \in 1..Len(writes) : writes[i][1][1] = "monthly_trends" /\ writes[i][2] # "ok"

C26_RequestAccountingExact ==
    phase # "idle" =>
        stats.successful_requests + stats.failed_requests = Len(requests)

\* C26, what does hold: every request is counted, and at most twice.
C26_EveryRequestCounted ==
    phase # "idle" =>
        /\ stats.successful_requests + stats.failed_requests >= Len(requests)
        /\ stats.successful_requests + stats.failed_requests <= 2 * Len(requests)
        /\ stats.successful_requests <= Len(requests)

\* _collect_monthly_data has returned.
MonthsReturned == phase \in {"languages", "hot", "report", "done"}

\* C28: for a month whose file exists _collect_monthly_data issues no request and
\* leaves the file as it is, and every month of the mapping it returns is in
\* months_covered and has its file.
C28_ResumesFromFiles ==
    /\ [][(phase = "monthly" /\ DictHas(disk, MonthFile(months_2025[month_pos + 1])))
             => (requests' = requests /\ disk' = disk)]_vars
    /\ [](MonthsReturned =>
            \A i \in 1..Len(monthly_data) :
                /\ monthly_data[i][1] \in stats.months_covered
                /\ DictHas(disk, MonthFile(monthly_data[i][1])))

\* C28 witness: the first month was read from the file of an earlier run, which is
\* still there, with no request; the second was requested and written.
C28_Witness ==
    /\ phase = "languages"
    /\ DictHas(disk, MonthFile("2025-01"))
    /\ DictGet(disk, MonthFile("2025-01")) = OldMonthFile
    /\ DictHas(monthly_data, "2025-01")
    /\ requests = << <<"month", "2025-02">> >>
    /\ DictHas(monthly_data, "2025-02")
    /\ DictGet(disk, MonthFile("2025-02")) = Dumped(MonthItems("2025-02", 2))

\* The keys of a dict.
KeySet(d) == {d[i][1] : i \in 1..Len(d)}

\* C27: monthly_trends and monthly_analysis have the same month keys after
\* calculate_monthly_popular_trends, whatever the monthly files hold.
C27_SameMonthKeys ==
    ran = "calculate_monthly_popular_trends" =>
        KeySet(monthly_trends) = KeySet(monthly_analysis)

\* C27, what does hold: every month of monthly_trends is a month of
\* monthly_analysis, and a month whose file or projects cannot be read is in
\* neither.
C27_TrendsWithinAnalysis ==
    ran = "calculate_monthly_popular_trends" =>
        /\ KeySet(monthly_trends) \subseteq KeySet(monthly_analysis)
        /\ \A i \in MonthsDone :
              AnalysisRaises(monthly_files[i][2]) =>
                 monthly_files[i][1] \notin KeySet(monthly_analysis)

-----------------------------------------------------------------------------
(* analyze_popular_projects on months of ten projects and more *)

\* Largest number of projects without stars in the month.
MaxQuiet == 10

\* The same dict n times.
Repeat(p, n) == [i \in 1..n |-> p]

\* Months made of projects that meet three conditions without stars (NoStars), all
\* four (Flask), the stars of the fallback alone (Commas), and one condition (Small).
PopularMonths ==
    {Repeat(NoStars, a) \o Repeat(Flask, b) \o Repeat(Commas, c) \o Repeat(Small, d) :
        a \in 0..MaxQuiet, b \in 0..2, c \in 0..2, d \in 0..1}

InitPopular ==
    /\ ran = "none"
    /\ ExtIdle
    /\ NormalizeIdle
    /\ YearlyIdle
    /\ MergeIdle
    /\ ClassifyIdle
    /\ ScoreIdle
    /\ MainIdle
    /\ BatchIdle
    /\ month_idx = 0 /\ monthly_trends = <<>> /\ monthly_analysis = <<>>
    /\ language_stats = <<>>
    /\ \E ps \in PopularMonths \ {<<>>} :
          monthly_files = << <<MonthNames[1], [kind |-> "list", projects |-> ps]>> >>

NextPopular == analyze_month_file

SpecPopular == InitPopular /\ [][NextPopular]_vars

\* The month of SpecPopular and its analysis.
TheMonth == monthly_files[1][2].projects
TheAnalysis == DictGet(monthly_analysis, monthly_files[1][1])

\* The number of the four criteria a record meets: stars >= 2000, a description of
\* more than 20 characters, a topic, a language.
CriteriaMet(p) ==
    Cardinality({c \in 1..4 :
        \/ c = 1 /\ StarsOf(p) >= 2000
        \/ c = 2 /\ p.description > 20
        \/ c = 3 /\ p.topics >= 1
        \/ c = 4 /\ p.language.t = "str" /\ p.language.s \notin {"", "null"}})

ModerateCount == Cardinality({i \in 1..Len(TheMonth) : CriteriaMet(TheMonth[i]) >= 3})
HighStarCount == Cardinality({i \in 1..Len(TheMonth) : StarsOf(TheMonth[i]) >= 1000})

C29_FallbackReached ==
    /\ month_idx = 1
    /\ ModerateCount = 9
    /\ TheAnalysis.popular_projects = HighStarCount

-----------------------------------------------------------------------------
(* 05_create_charts.py: create_project_type_dashboard, the rows of the pie chart *)

\* PROJECT_TYPE_MAPPING on the types of the tables below; a type that is no key
\* of it gets NaN from Series.map, held here as a name no type has.
NoTranslation == "<NaN>"
PROJECT_TYPE_MAPPING(zh_type) ==
    CASE zh_type = "Other" -> "Other"
      [] zh_type = "Artificial Intelligence" -> "AI/ML"
      [] zh_type = "Utilities" -> "Utilities"
      [] zh_type = "Development Tools" -> "Development Tools"
      [] OTHER -> NoTranslation

\* The types a table may hold, in the order of the file; Security is no key of
\* PROJECT_TYPE_MAPPING.
ChartTypes ==
    <<"Artificial Intelligence", "Development Tools", "Other", "Security", "Utilities">>

\* The counts of a category.
ChartCounts == {1, 3, 5}

\* The tables: each type of ChartTypes at most once, in their order.
RECURSIVE TablesFrom(_)
TablesFrom(k) ==
    IF k > Len(ChartTypes) THEN {<<>>}
    ELSE LET rest == TablesFrom(k + 1)
         IN  rest \cup {<<[project_type |-> ChartTypes[k], count |-> c]>> \o t :
                           c \in ChartCounts, t \in rest}

\* translate_project_types
translate_project_types(table) ==
    [i \in 1..Len(table) |->
        [project_type |-> table[i].project_type,
         count |-> table[i].count,
         project_type_en |-> PROJECT_TYPE_MAPPING(table[i].project_type)]]

\* main_threshold
main_threshold == 3

\* len(other_index) > 0
HasOther(table) == \E i \in 1..Len(table) : table[i].project_type_en = "Other"

\* main_types: the rows at or above the threshold; the row Other is taken out when
\* the table has one.
MainTypes(table) ==
    IF HasOther(table)
    THEN SelectSeq(table, LAMBDA r : r.count >= main_threshold /\ r.project_type_en # "Other")
    ELSE SelectSeq(table, LAMBDA r : r.count >= main_threshold)

\* The rows below the threshold alone, the row Other left where it was.
BelowThreshold(table) == SelectSeq(table, LAMBDA r : r.count < main_threshold)

\* other_types: the rows below the threshold, then the row Other when it is at or
\* above the threshold.
OtherTypes(table) ==
    IF HasOther(table)
    THEN SelectSeq(table, LAMBDA r : r.count < main_threshold)
         \o SelectSeq(table, LAMBDA r : r.count >= main_threshold /\ r.project_type_en = "Other")
    ELSE SelectSeq(table, LAMBDA r : r.count < main_threshold)

\* df_main before it is sorted.
Regrouped(table) ==
    LET other_types == OtherTypes(table)
    IN  IF Len(other_types) > 0
        THEN Append(MainTypes(table),
                    [project_type_en |-> "Other",
                     count |-> SumSeq([i \in 1..Len(other_types) |-> other_types[i].count])])
        ELSE MainTypes(table)

\* create_project_type_dashboard up to the rows of the pie chart.  The line that
\* prints the share of the category Other takes .iloc[0] of its rows and raises
\* IndexError when the table has none.
create_project_type_dashboard ==
    /\ ran = "none"
    /\ ran' = "create_project_type_dashboard"
    /\ LET translated == translate_project_types(df_original)
       IN  IF ~\E i \in 1..Len(df_original) : df_original[i].project_type = "Other"
           THEN /\ chart_raised' = "IndexError"
                /\ df_main' = <<>>
           ELSE /\ chart_raised' = "none"
                /\ df_main' \in DescOrders(Regrouped(translated), "count")
    /\ UNCHANGED <<df_original, parseState, collectState, normState, yearState, mergeState,
                   classState, scoreState, mainState, batchState, trendState>>

InitChart ==
    /\ ran = "none"
    /\ ParseIdle
    /\ CollectIdle
    /\ NormalizeIdle
    /\ YearlyIdle
    /\ MergeIdle
    /\ ClassifyIdle
    /\ ScoreIdle
    /\ MainIdle
    /\ BatchIdle
    /\ TrendIdle
    /\ df_original \in TablesFrom(1)
    /\ df_main = <<>>
    /\ chart_raised = "none"

NextChart == create_project_type_dashboard

SpecChart == InitChart /\ [][NextChart]_vars

\* The sum of the column count.
CountSum(rows) == SumSeq([i \in 1..Len(rows) |-> rows[i].count])

\* The dashboard has made the rows of the pie chart.
Charted == ran = "create_project_type_dashboard" /\ chart_raised = "none"

=============================================================================
